---- MODULE Spec2Model ----
(***************************************************************************)
(* Model of ftg_bitbuffer.h (bit-granular serializer) and ftg_base89.h     *)
(* (Printable Base89 LUT codes).                                           *)
(*                                                                         *)
(* A uint64_t is represented by the set of its set bit positions, a subset *)
(* of 0..63: AND is intersection, OR is union, a shift moves the positions *)
(* and drops those that leave the word.  This keeps the 64-bit width of    *)
(* the segments without 64-bit integer arithmetic.                         *)
(***************************************************************************)
EXTENDS Integers, Sequences, FiniteSets, TLC

VARIABLES
    buffer,     \* bitbuf_buffer_t: data, capacity_bytes, truncated, write
    cursors,    \* the caller's bitbuf_cursor_t objects, by name
    written,    \* history: the write calls made, in order
    hist,       \* history: per cursor, the read calls made and their results
    last,       \* history: the last library call, its inputs and its result
    caller,     \* the caller's plan: the calls it may still make, their inputs
    b89         \* the caller's variables around b89_pack / b89_unpack

vars == <<buffer, cursors, written, hist, last, caller, b89>>

-----------------------------------------------------------------------------
(* Bounds of the model *)

\* largest max_bytes handed to bitbuf_alloc_buffer
MaxAllocBytes == 9
\* most write calls on the buffer
MaxWrites == 3
\* most read calls on a buffer made from a byte image, over its cursors
MaxCursorReads == 3
\* most write calls of a writer that pads
MaxPadWrites == 5
\* most bytes in an image handed to bitbuf_alloc_buffer_with_bytes and rebuilt
\* by byte writes
MaxImageBytes == 9
\* most bytes before the terminator of a string handed to bitbuf_write_cstr
MaxCstrLen == 3
\* most bytes in a string handed to b89_iter_init
MaxStrBytes == 9
\* most write calls, and most read calls, of a caller free to pick any width
MaxAnyWrites == 2
MaxAnyReads == 2
\* most bytes in a byte range handed to scan_string_seg
MaxScanBytes == 17
\* most items (texts and packed indexes) concatenated into a string
MaxItems == 3
\* most bytes in a string of arbitrary bytes tokenized to the end and beyond
MaxRawBytes == 7
\* most calls of b89_iter_next made after the call that returned 0
MaxLateCalls == 2

-----------------------------------------------------------------------------
(* uint64_t arithmetic on bit sets *)

BITBUF__SEG_BITS == 64

U64Bits == 0 .. (BITBUF__SEG_BITS - 1)

ShiftLeft(v, k) == {i + k : i \in v} \cap U64Bits

ShiftRight(v, k) == {i - k : i \in v} \cap U64Bits

\* bitbuf__spanmasktable[n]: the low n bits
bitbuf__spanmasktable(n) == 0 .. (n - 1)

BITBUF__ALIGN_DOWN(n, a) == n - (n % a)

BITBUF__ALIGN_UP(n, a) == BITBUF__ALIGN_DOWN(n + a - 1, a)

\* the distance to the next multiple, a itself when n is one
BITBUF__ALIGN_UP_DELTA_next(n, a) == a - (n % a)

BITBUF__ALIGN_UP_DELTA(n, a) == (a - n) % a

\* the bits of the byte b (0..255)
ByteBits(b) == {i \in 0 .. 7 : (b \div (2 ^ i)) % 2 = 1}

\* x ^= 1 in place of x |= 1
XorOne(x) == IF x % 2 = 1 THEN x - 1 ELSE x + 1

\* x |= 1 on an int
OrOne(x) == IF x % 2 = 1 THEN x ELSE x + 1

-----------------------------------------------------------------------------
(* Buffer and cursor objects *)

NULL == "NULL"

\* number of uint64_t segments behind buffer.data
SegCount(buf) == buf.capacity_bytes \div 8

bitbuf_alloc_buffer(max_bytes) ==
    LET capacity == BITBUF__ALIGN_UP(max_bytes, 8) IN
    [ data           |-> [i \in 0 .. (capacity \div 8) - 1 |-> {}],
      capacity_bytes |-> capacity,
      truncated      |-> 0,
      write          |-> [seg |-> 0, bits_into_seg |-> 0, owner |-> NULL] ]

\* the bytes copied and the write cursor left at the start of the buffer
bitbuf_alloc_buffer_with_bytes_unmoved(bytes, num_bytes) ==
    LET fresh == bitbuf_alloc_buffer(num_bytes)
        seg_of(i) == UNION {ShiftLeft(ByteBits(bytes[j + 1]), 8 * (j % 8)) :
                            j \in {k \in 0 .. num_bytes - 1 : k \div 8 = i}}
    IN  [fresh EXCEPT !.data = [i \in DOMAIN fresh.data |-> seg_of(i)]]

\* memcpy(buffer.data, bytes, num_bytes) on a little-endian host: byte j of the
\* image is bits 8 * (j % 8) .. 8 * (j % 8) + 7 of segment j / 8
bitbuf_alloc_buffer_with_bytes(bytes, num_bytes) ==
    LET fresh == bitbuf_alloc_buffer(num_bytes)
        seg_of(i) == UNION {ShiftLeft(ByteBits(bytes[j + 1]), 8 * (j % 8)) :
                            j \in {k \in 0 .. num_bytes - 1 : k \div 8 = i}}
    IN  [fresh EXCEPT
           !.data  = [i \in DOMAIN fresh.data |-> seg_of(i)],
           !.write = [@ EXCEPT !.seg = num_bytes \div 8,
                               !.bits_into_seg = (num_bytes % 8) * 8]]

bitbuf_has_truncated(buf) == buf.truncated = 1

\* the bytes counted down to the last whole byte
bitbuf_get_bytes_whole_bytes(buf) ==
    [bytes         |-> buf.data,
     out_num_bytes |-> buf.write.seg * 8 + BITBUF__ALIGN_DOWN(buf.write.bits_into_seg, 8) \div 8]

\* returns the segment array and *out_num_bytes
bitbuf_get_bytes_from_buffer(buf) ==
    [bytes         |-> buf.data,
     out_num_bytes |-> buf.write.seg * 8 + BITBUF__ALIGN_UP(buf.write.bits_into_seg, 8) \div 8]

\* a bitbuf_cursor_t the caller has declared but not yet initialised
NoCursor == [seg |-> 0, bits_into_seg |-> 0, owner |-> NULL, read_past_end |-> 0]

\* the bits used in the current segment left out of total_bits_used
bitbuf__remaining_capacity_whole_segs(buf) ==
    LET completed_seg_bits == buf.write.seg * BITBUF__SEG_BITS
        capacity_bits      == buf.capacity_bytes * 8
    IN  capacity_bits - completed_seg_bits

bitbuf__remaining_capacity_in_bits(buf) ==
    LET completed_seg_bits == buf.write.seg * BITBUF__SEG_BITS
        total_bits_used    == completed_seg_bits + buf.write.bits_into_seg
        capacity_bits      == buf.capacity_bytes * 8
    IN  capacity_bits - total_bits_used

bitbuf__bits_remaining_for_cursor(buf, cursor) ==
    LET remaining_segs == (buf.capacity_bytes \div 8) - cursor.seg
        remaining_bits == BITBUF__SEG_BITS - cursor.bits_into_seg
    IN  (remaining_segs * BITBUF__SEG_BITS) + remaining_bits

bitbuf__is_valid_read_cursor(buf, cursor) ==
    /\ cursor.owner # NULL
    /\ cursor.seg >= 0
    /\ bitbuf__bits_remaining_for_cursor(buf, cursor) >= 0

\* the segment stepped without bits_into_seg set back to 0
bitbuf__advance_cursor_unreset(cursor) ==
    [cursor EXCEPT !.seg = cursor.seg + 1]

bitbuf__advance_cursor(cursor) ==
    [cursor EXCEPT !.bits_into_seg = 0, !.seg = cursor.seg + 1]

\* *seg = bits: the store drops what the segment held
StoreIntoSeg(buf, seg, bits) ==
    IF seg \in DOMAIN buf.data
    THEN [buf EXCEPT !.data[seg] = bits]
    ELSE buf

\* *seg |= bits, for seg == buf.data + seg.  A store outside the segment array
\* leaves the array as it is (the step is recorded as "oob_write").
OrIntoSeg(buf, seg, bits) ==
    IF seg \in DOMAIN buf.data
    THEN [buf EXCEPT !.data[seg] = @ \cup bits]
    ELSE buf

\* *seg, for seg == buf.data + seg.  A load outside the segment array yields
\* whatever the memory there holds: junk.
LoadSeg(buf, seg, junk) ==
    IF seg \in DOMAIN buf.data THEN buf.data[seg] ELSE junk

-----------------------------------------------------------------------------
(* The two bit primitives.  Each returns the new object and the faults of  *)
(* the call: failed BITBUF__ASSERTs (the hook does not abort) and accesses *)
(* outside the segment array.                                              *)

\* the datum of a field that fits its segment stored without SRC_MASK
RECURSIVE bitbuf__write_bits_unmasked(_, _, _)
bitbuf__write_bits_unmasked(buf, datum, num_bits) ==
    IF num_bits > 64
    THEN [buffer |-> buf, faults |-> {"assert_num_bits"}]
    ELSE
    LET frozen == IF buf.write.owner # NULL
                  THEN {"assert_no_write_after_reads"} ELSE {}
    IN
    IF bitbuf__remaining_capacity_in_bits(buf) < num_bits
    THEN [buffer |-> [buf EXCEPT !.truncated = OrOne(@)],
          faults |-> frozen \cup {"assert_out_of_space"}]
    ELSE
    LET bits_remaining_in_seg == BITBUF__SEG_BITS - buf.write.bits_into_seg
        oob == IF buf.write.seg \in DOMAIN buf.data THEN {} ELSE {"oob_write"}
    IN
    IF num_bits <= bits_remaining_in_seg
    THEN
        LET stored   == OrIntoSeg(buf, buf.write.seg,
                            ShiftLeft(datum, buf.write.bits_into_seg))
            moved    == [stored EXCEPT !.write.bits_into_seg = @ + num_bits]
        IN  [buffer |-> IF moved.write.bits_into_seg = BITBUF__SEG_BITS
                        THEN [moved EXCEPT !.write = bitbuf__advance_cursor(@)]
                        ELSE moved,
             faults |-> frozen \cup oob]
    ELSE
        LET SRC_MASK == bitbuf__spanmasktable(bits_remaining_in_seg)
            stored   == OrIntoSeg(buf, buf.write.seg,
                            ShiftLeft(datum \cap SRC_MASK,
                                      BITBUF__SEG_BITS - bits_remaining_in_seg))
            advanced == [stored EXCEPT !.write = bitbuf__advance_cursor(@)]
            num_bits_remaining_for_next_write == num_bits - bits_remaining_in_seg
            OVER_MASK == ShiftLeft(
                            bitbuf__spanmasktable(num_bits_remaining_for_next_write),
                            bits_remaining_in_seg)
            rest     == bitbuf__write_bits_unmasked(advanced,
                            ShiftRight(datum \cap OVER_MASK, bits_remaining_in_seg),
                            num_bits_remaining_for_next_write)
        IN  [buffer |-> rest.buffer, faults |-> frozen \cup oob \cup rest.faults]

RECURSIVE bitbuf__write_bits(_, _, _)
bitbuf__write_bits(buf, datum, num_bits) ==
    IF num_bits > 64
    THEN [buffer |-> buf, faults |-> {"assert_num_bits"}]
    ELSE
    LET frozen == IF buf.write.owner # NULL
                  THEN {"assert_no_write_after_reads"} ELSE {}
    IN
    IF bitbuf__remaining_capacity_in_bits(buf) < num_bits
    THEN [buffer |-> [buf EXCEPT !.truncated = OrOne(@)],
          faults |-> frozen \cup {"assert_out_of_space"}]
    ELSE
    LET bits_remaining_in_seg == BITBUF__SEG_BITS - buf.write.bits_into_seg
        oob == IF buf.write.seg \in DOMAIN buf.data THEN {} ELSE {"oob_write"}
    IN
    IF num_bits <= bits_remaining_in_seg
    THEN
        LET SRC_MASK == bitbuf__spanmasktable(num_bits)
            stored   == OrIntoSeg(buf, buf.write.seg,
                            ShiftLeft(datum \cap SRC_MASK, buf.write.bits_into_seg))
            moved    == [stored EXCEPT !.write.bits_into_seg = @ + num_bits]
        IN  [buffer |-> IF moved.write.bits_into_seg = BITBUF__SEG_BITS
                        THEN [moved EXCEPT !.write = bitbuf__advance_cursor(@)]
                        ELSE moved,
             faults |-> frozen \cup oob]
    ELSE
        LET SRC_MASK == bitbuf__spanmasktable(bits_remaining_in_seg)
            stored   == OrIntoSeg(buf, buf.write.seg,
                            ShiftLeft(datum \cap SRC_MASK,
                                      BITBUF__SEG_BITS - bits_remaining_in_seg))
            advanced == [stored EXCEPT !.write = bitbuf__advance_cursor(@)]
            num_bits_remaining_for_next_write == num_bits - bits_remaining_in_seg
            OVER_MASK == ShiftLeft(
                            bitbuf__spanmasktable(num_bits_remaining_for_next_write),
                            bits_remaining_in_seg)
            rest     == bitbuf__write_bits(advanced,
                            ShiftRight(datum \cap OVER_MASK, bits_remaining_in_seg),
                            num_bits_remaining_for_next_write)
        IN  [buffer |-> rest.buffer, faults |-> frozen \cup oob \cup rest.faults]

\* the bits of the second segment OR-ed in without the shift past the first part
bitbuf__read_bits_unshifted(buf, read, num_bits, junk) ==
    LET invalid == IF bitbuf__is_valid_read_cursor(buf, read)
                   THEN {} ELSE {"assert_valid_read_cursor"}
    IN
    IF num_bits > 64
    THEN [cursor |-> read, val |-> {}, faults |-> invalid \cup {"assert_num_bits"}]
    ELSE
    IF bitbuf__bits_remaining_for_cursor(buf, read) < num_bits
    THEN [cursor |-> [read EXCEPT !.read_past_end = OrOne(@)],
          val    |-> {},
          faults |-> invalid \cup {"assert_read_past_end"}]
    ELSE
    LET bits_remaining_in_seg == BITBUF__SEG_BITS - read.bits_into_seg
        oob == IF read.seg \in DOMAIN buf.data THEN {} ELSE {"oob_read"}
    IN
    IF num_bits <= bits_remaining_in_seg
    THEN
        LET DST_MASK == ShiftLeft(bitbuf__spanmasktable(num_bits), read.bits_into_seg)
            val      == ShiftRight(LoadSeg(buf, read.seg, junk) \cap DST_MASK,
                                   read.bits_into_seg)
            moved    == [read EXCEPT !.bits_into_seg = @ + num_bits]
        IN  [cursor |-> IF moved.bits_into_seg = BITBUF__SEG_BITS
                        THEN bitbuf__advance_cursor(moved) ELSE moved,
             val    |-> val,
             faults |-> invalid \cup oob]
    ELSE
        LET DST_MASK == ShiftLeft(bitbuf__spanmasktable(bits_remaining_in_seg),
                                  BITBUF__SEG_BITS - bits_remaining_in_seg)
            low      == ShiftRight(LoadSeg(buf, read.seg, junk) \cap DST_MASK,
                                   BITBUF__SEG_BITS - bits_remaining_in_seg)
            advanced == bitbuf__advance_cursor(read)
            next_read_num_bits == num_bits - bits_remaining_in_seg
            short    == IF bitbuf__bits_remaining_for_cursor(buf, advanced) >= num_bits
                        THEN {} ELSE {"assert_bits_remaining"}
            oob2     == IF advanced.seg \in DOMAIN buf.data THEN {} ELSE {"oob_read"}
            OVER_MASK == bitbuf__spanmasktable(next_read_num_bits)
            val      == low \cup (LoadSeg(buf, advanced.seg, junk) \cap OVER_MASK)
        IN  [cursor |-> [advanced EXCEPT !.bits_into_seg = @ + next_read_num_bits],
             val    |-> val,
             faults |-> invalid \cup oob \cup short \cup oob2]

bitbuf__read_bits(buf, read, num_bits, junk) ==
    LET invalid == IF bitbuf__is_valid_read_cursor(buf, read)
                   THEN {} ELSE {"assert_valid_read_cursor"}
    IN
    IF num_bits > 64
    THEN [cursor |-> read, val |-> {}, faults |-> invalid \cup {"assert_num_bits"}]
    ELSE
    IF bitbuf__bits_remaining_for_cursor(buf, read) < num_bits
    THEN [cursor |-> [read EXCEPT !.read_past_end = OrOne(@)],
          val    |-> {},
          faults |-> invalid \cup {"assert_read_past_end"}]
    ELSE
    LET bits_remaining_in_seg == BITBUF__SEG_BITS - read.bits_into_seg
        oob == IF read.seg \in DOMAIN buf.data THEN {} ELSE {"oob_read"}
    IN
    IF num_bits <= bits_remaining_in_seg
    THEN
        LET DST_MASK == ShiftLeft(bitbuf__spanmasktable(num_bits), read.bits_into_seg)
            val      == ShiftRight(LoadSeg(buf, read.seg, junk) \cap DST_MASK,
                                   read.bits_into_seg)
            moved    == [read EXCEPT !.bits_into_seg = @ + num_bits]
        IN  [cursor |-> IF moved.bits_into_seg = BITBUF__SEG_BITS
                        THEN bitbuf__advance_cursor(moved) ELSE moved,
             val    |-> val,
             faults |-> invalid \cup oob]
    ELSE
        LET DST_MASK == ShiftLeft(bitbuf__spanmasktable(bits_remaining_in_seg),
                                  BITBUF__SEG_BITS - bits_remaining_in_seg)
            low      == ShiftRight(LoadSeg(buf, read.seg, junk) \cap DST_MASK,
                                   BITBUF__SEG_BITS - bits_remaining_in_seg)
            advanced == bitbuf__advance_cursor(read)
            next_read_num_bits == num_bits - bits_remaining_in_seg
            short    == IF bitbuf__bits_remaining_for_cursor(buf, advanced) >= num_bits
                        THEN {} ELSE {"assert_bits_remaining"}
            oob2     == IF advanced.seg \in DOMAIN buf.data THEN {} ELSE {"oob_read"}
            OVER_MASK == bitbuf__spanmasktable(next_read_num_bits)
            val      == low \cup ShiftLeft(LoadSeg(buf, advanced.seg, junk) \cap OVER_MASK,
                                           bits_remaining_in_seg)
        IN  [cursor |-> [advanced EXCEPT !.bits_into_seg = @ + next_read_num_bits],
             val    |-> val,
             faults |-> invalid \cup oob \cup short \cup oob2]

-----------------------------------------------------------------------------
(* Typed writers.  A value of a C type of w bits is the set of the set bit *)
(* positions of its object representation, a subset of 0..w-1.             *)

\* BITBUF__PUN / BITBUF__WRITE_TYPE: the value is stored into the low bytes
\* of the union; the bytes of u64 above it keep what they held (junk).
PunToU64(value, width, junk) ==
    (value \cap bitbuf__spanmasktable(width)) \cup (junk \ bitbuf__spanmasktable(width))

\* BITBUF__DECL_WRITE: bitbuf_write_{int,uint}{8,16,32,64}, _float, _double
bitbuf_write_type(buf, width, value, junk) ==
    bitbuf__write_bits(buf, PunToU64(value, width, junk), width)

\* a C bool is one byte holding 0 or 1
bitbuf_write_bool(buf, value, junk) ==
    bitbuf__write_bits(buf, PunToU64(IF value THEN {0} ELSE {}, 8, junk), 1)

\* the byte a set of bits within 0..7 stands for
BitsByte(v) ==
    LET bit(i) == IF i \in v THEN 2 ^ i ELSE 0
    IN  bit(0) + bit(1) + bit(2) + bit(3) + bit(4) + bit(5) + bit(6) + bit(7)

\* (uint64_t)*p for a char *p: a plain char that is signed sign-extends
CharToU64(b, char_is_signed) ==
    IF char_is_signed /\ b >= 128
    THEN ByteBits(b) \cup (U64Bits \ bitbuf__spanmasktable(8))
    ELSE ByteBits(b)

\* the bytes of the string written and no terminator after them
RECURSIVE bitbuf_write_cstr_unterminated(_, _, _)
bitbuf_write_cstr_unterminated(buf, str, char_is_signed) ==
    IF str # << >>
    THEN LET one  == bitbuf__write_bits(buf, CharToU64(Head(str), char_is_signed), 8)
             rest == bitbuf_write_cstr_unterminated(one.buffer, Tail(str), char_is_signed)
         IN  [buffer |-> rest.buffer, faults |-> one.faults \cup rest.faults]
    ELSE [buffer |-> buf, faults |-> {}]

\* str is the sequence of the bytes before the terminator
\* all or nothing: a string that does not fit only sets truncated
bitbuf_write_cstr_all_or_nothing(buf, str, char_is_signed) ==
    LET chars == bitbuf_write_cstr_unterminated(buf, str, char_is_signed)
        nul   == bitbuf__write_bits(chars.buffer, {}, 8)
    IN  IF nul.buffer.truncated = 1
        THEN [buffer |-> [buf EXCEPT !.truncated = 1],
              faults |-> chars.faults \cup nul.faults]
        ELSE [buffer |-> nul.buffer, faults |-> chars.faults \cup nul.faults]

RECURSIVE bitbuf_write_cstr(_, _, _)
bitbuf_write_cstr(buf, str, char_is_signed) ==
    IF str # << >>
    THEN LET one  == bitbuf__write_bits(buf, CharToU64(Head(str), char_is_signed), 8)
             rest == bitbuf_write_cstr(one.buffer, Tail(str), char_is_signed)
         IN  [buffer |-> rest.buffer, faults |-> one.faults \cup rest.faults]
    ELSE bitbuf__write_bits(buf, {}, 8)

bitbuf_write_n_bits(buf, num_bits, value) ==
    IF num_bits > 64
    THEN [buffer |-> buf, faults |-> {"assert_num_bits"}]
    ELSE LET chopped == IF value \ bitbuf__spanmasktable(num_bits) = {}
                        THEN {} ELSE {"assert_value_fits"}
             w == bitbuf__write_bits(buf, value, num_bits)
         IN  [buffer |-> w.buffer, faults |-> chopped \cup w.faults]

bitbuf_pad_to_byte(buf) ==
    LET align_bits == BITBUF__ALIGN_UP_DELTA(buf.write.bits_into_seg, 8)
    IN  IF align_bits # 0
        THEN bitbuf__write_bits(buf, {}, align_bits)
        ELSE [buffer |-> buf, faults |-> {}]

-----------------------------------------------------------------------------
(* Cursors and typed readers *)

\* returns the buffer (its write cursor now owned) and the new read cursor
bitbuf_cursor_init(buf) ==
    [buffer |-> [buf EXCEPT !.write.owner = "buffer"],
     cursor |-> [seg |-> 0, bits_into_seg |-> 0, owner |-> "buffer",
                 read_past_end |-> 0]]

\* BITBUF__DECL_READ: the value is the low bytes of the union
bitbuf_read_type(buf, read, width, junk) ==
    LET r == bitbuf__read_bits(buf, read, width, junk)
    IN  [r EXCEPT !.val = @ \cap bitbuf__spanmasktable(width)]

bitbuf_read_bool(buf, read, junk) ==
    LET r == bitbuf__read_bits(buf, read, 1, junk)
    IN  [r EXCEPT !.val = (0 \in @)]

\* out_str is returned as the C string it holds: the bytes before the first 0
RECURSIVE bitbuf__read_cstr_loop(_, _, _, _, _, _)
bitbuf__read_cstr_loop(buf, read, max_bytes, junk, out_str, faults) ==
    IF Len(out_str) < max_bytes
    THEN LET r == bitbuf__read_bits(buf, read, 8, junk)
             c == BitsByte(r.val \cap bitbuf__spanmasktable(8))
         IN  IF c = 0
             THEN [cursor |-> r.cursor, val |-> out_str, faults |-> faults \cup r.faults]
             ELSE bitbuf__read_cstr_loop(buf, r.cursor, max_bytes, junk,
                                         Append(out_str, c), faults \cup r.faults)
    ELSE [cursor |-> read, val |-> << >>, faults |-> faults]

\* the cursor put back where the call started when no terminator was found
bitbuf_read_cstr_rewound(buf, read, max_bytes, junk) ==
    LET r == bitbuf__read_cstr_loop(buf, read, max_bytes, junk, << >>, {})
    IN  IF r.val = << >> /\ r.cursor # read /\ max_bytes > 1
        THEN [r EXCEPT !.cursor = read]
        ELSE r

bitbuf_read_cstr(buf, read, max_bytes, junk) ==
    bitbuf__read_cstr_loop(buf, read, max_bytes, junk, << >>, {})

\* the record's mask field is *out_mask
bitbuf_read_n_bits(buf, read, num_bits, junk) ==
    IF num_bits > 64
    THEN [cursor |-> read, val |-> {}, mask |-> {}, faults |-> {"assert_num_bits"}]
    ELSE LET r == bitbuf__read_bits(buf, read, num_bits, junk)
         IN  [cursor |-> r.cursor, val |-> r.val,
              mask |-> bitbuf__spanmasktable(num_bits), faults |-> r.faults]

\* BITBUF__ALIGN_DOWN in place of BITBUF__ALIGN_UP
bitbuf_skip_byte_padding_down(buf, read) ==
    LET aligned == [read EXCEPT !.bits_into_seg = BITBUF__ALIGN_DOWN(@, 8)]
        done    == IF aligned.bits_into_seg = BITBUF__SEG_BITS
                   THEN bitbuf__advance_cursor(aligned) ELSE aligned
    IN  [cursor |-> done, val |-> {}, faults |-> {}]

bitbuf_skip_byte_padding(buf, read) ==
    LET invalid == IF bitbuf__is_valid_read_cursor(buf, read)
                   THEN {} ELSE {"assert_valid_read_cursor"}
        aligned == [read EXCEPT !.bits_into_seg = BITBUF__ALIGN_UP(@, 8)]
        done    == IF aligned.bits_into_seg = BITBUF__SEG_BITS
                   THEN bitbuf__advance_cursor(aligned) ELSE aligned
        short   == IF bitbuf__bits_remaining_for_cursor(buf, done) >= 0
                   THEN {} ELSE {"assert_bits_remaining"}
    IN  [cursor |-> done, val |-> {}, faults |-> invalid \cup short]

-----------------------------------------------------------------------------
(* float: IEEE 754 binary32 with round to nearest, ties to even. A float   *)
(* is [s, m, e], worth s * m * 2^e, where m = 0 (zero, s = 1, e = 0) or    *)
(* 2^23 <= m < 2^24. Infinities, NaN and subnormals are left out: the      *)
(* ranges the caller passes keep every intermediate value normal.          *)

FloatZero == [s |-> 1, m |-> 0, e |-> 0]

RECURSIVE BitLen(_)
BitLen(n) == IF n = 0 THEN 0 ELSE 1 + BitLen(n \div 2)

\* s * (m + f) * 2^e rounded to 24 significant bits, where 0 < f < 1 when
\* sticky and f = 0 otherwise; m has 25 bits or more whenever sticky
FloatRound(s, m, e, sticky) ==
    IF m = 0
    THEN FloatZero
    ELSE LET nb == BitLen(m)
         IN  IF nb <= 24
             THEN [s |-> s, m |-> m * (2 ^ (24 - nb)), e |-> e - (24 - nb)]
             ELSE LET sh   == nb - 24
                      q    == m \div (2 ^ sh)
                      r    == m % (2 ^ sh)
                      half == 2 ^ (sh - 1)
                      up   == r > half \/ (r = half /\ (sticky \/ q % 2 = 1))
                      q1   == IF up THEN q + 1 ELSE q
                  IN  IF q1 = 2 ^ 24
                      THEN [s |-> s, m |-> 2 ^ 23, e |-> e + sh + 1]
                      ELSE [s |-> s, m |-> q1, e |-> e + sh]

FloatNeg(a) == IF a.m = 0 THEN a ELSE [a EXCEPT !.s = 0 - @]

\* |a| < |b|
FloatMagLess(a, b) ==
    IF b.m = 0 THEN FALSE
    ELSE IF a.m = 0 THEN TRUE
    ELSE a.e < b.e \/ (a.e = b.e /\ a.m < b.m)

\* a < b
FloatLess(a, b) ==
    LET sa == IF a.m = 0 THEN 0 ELSE a.s
        sb == IF b.m = 0 THEN 0 ELSE b.s
    IN  IF sa # sb THEN sa < sb
        ELSE IF sa = 1 THEN FloatMagLess(a, b)
        ELSE IF sa = -1 THEN FloatMagLess(b, a)
        ELSE FALSE

\* a + b: the smaller operand is shifted right under three guard bits, the
\* bits shifted out kept as the sticky flag
FloatAdd(a, b) ==
    IF a.m = 0 THEN b
    ELSE IF b.m = 0 THEN a
    ELSE LET x    == IF FloatMagLess(a, b) THEN b ELSE a
             y    == IF FloatMagLess(a, b) THEN a ELSE b
             diff == x.e - y.e
         IN  IF diff > 26
             THEN x
             ELSE LET X  == x.m * 8
                      Yq == (y.m * 8) \div (2 ^ diff)
                      st == (y.m * 8) % (2 ^ diff) # 0
                  IN  IF x.s = y.s
                      THEN FloatRound(x.s, X + Yq, x.e - 3, st)
                      ELSE FloatRound(x.s, X - Yq - (IF st THEN 1 ELSE 0),
                                      x.e - 3, st)

\* a - b
FloatSub(a, b) == FloatAdd(a, FloatNeg(b))

\* a * b: the 48-bit product of the significands in two 24-bit halves
FloatMul(a, b) ==
    IF a.m = 0 \/ b.m = 0
    THEN FloatZero
    ELSE LET a1  == a.m \div 4096
             a0  == a.m % 4096
             b1  == b.m \div 4096
             b0  == b.m % 4096
             mid == (a1 * b0) + (a0 * b1)
             low == (a0 * b0) + ((mid % 4096) * 4096)
             L   == low % (2 ^ 24)
             H   == (a1 * b1) + (mid \div 4096) + (low \div (2 ^ 24))
         IN  FloatRound(a.s * b.s, (H * 4) + (L \div (2 ^ 22)),
                        a.e + b.e + 22, L % (2 ^ 22) # 0)

\* n more quotient bits of r / d by long division
RECURSIVE FloatDivBits(_, _, _, _)
FloatDivBits(r, d, q, n) ==
    IF n = 0
    THEN [q |-> q, r |-> r]
    ELSE FloatDivBits((2 * r) % d, d, (2 * q) + ((2 * r) \div d), n - 1)

\* a / b for b # 0
FloatDiv(a, b) ==
    IF a.m = 0
    THEN FloatZero
    ELSE LET z == FloatDivBits(a.m % b.m, b.m, a.m \div b.m, 26)
         IN  FloatRound(a.s * b.s, z.q, a.e - b.e - 26, z.r # 0)

\* the bits of n, 0 <= n < 2^31
BitsOfNat(n) == {i \in 0 .. 30 : (n \div (2 ^ i)) % 2 = 1}

\* the number whose bits are v, v within 0 .. 30
RECURSIVE NatOfBits(_)
NatOfBits(v) ==
    IF v = {}
    THEN 0
    ELSE LET i == CHOOSE j \in v : TRUE
         IN  (2 ^ i) + NatOfBits(v \ {i})

\* (float)v for an unsigned integer v
UIntToFloat(v) ==
    IF v = {}
    THEN FloatZero
    ELSE LET hi == CHOOSE i \in v : \A j \in v : j <= i
         IN  IF hi <= 30
             THEN FloatRound(1, NatOfBits(v), 0, FALSE)
             ELSE LET sh == hi - 25
                  IN  FloatRound(1, NatOfBits(ShiftRight(v, sh)), sh,
                                 v \cap (0 .. (sh - 1)) # {})

\* (uint64_t)f for 0 <= f < 2^64: the fraction is dropped
FloatToUInt64(f) ==
    IF f.e >= 0
    THEN ShiftLeft(BitsOfNat(f.m), f.e)
    ELSE IF 0 - f.e >= 24
    THEN {}
    ELSE BitsOfNat(f.m \div (2 ^ (0 - f.e)))

\* BITBUF__MAX(a, b) and BITBUF__MIN(a, b) on floats
BITBUF__MAX(a, b) == IF FloatLess(b, a) THEN a ELSE b

BITBUF__MIN(a, b) == IF FloatLess(a, b) THEN a ELSE b

-----------------------------------------------------------------------------
(* Quantized floats *)

\* the saturation fixup left out
bitbuf_write_quantized_float_unfixed(buf, num_bits, min, max, value) ==
    LET bit_max == bitbuf__spanmasktable(num_bits) \cap (0 .. 31)
        qf      == BITBUF__MIN(
                       BITBUF__MAX(FloatDiv(FloatMul(FloatSub(value, min),
                                                     UIntToFloat(bit_max)),
                                            FloatSub(max, min)),
                                   FloatZero),
                       UIntToFloat(bit_max))
    IN  bitbuf__write_bits(buf, FloatToUInt64(qf), num_bits)

bitbuf_write_quantized_float(buf, num_bits, min, max, value) ==
    LET width   == IF num_bits <= 31 THEN {} ELSE {"assert_num_bits"}
        order   == IF FloatLess(min, max) THEN {} ELSE {"assert_min_max"}
        inside  == IF ~FloatLess(value, min) /\ ~FloatLess(max, value)
                   THEN {} ELSE {"assert_value_in_range"}
        bit_max == bitbuf__spanmasktable(num_bits) \cap (0 .. 31)
        qf      == BITBUF__MIN(
                       BITBUF__MAX(FloatDiv(FloatMul(FloatSub(value, min),
                                                     UIntToFloat(bit_max)),
                                            FloatSub(max, min)),
                                   FloatZero),
                       UIntToFloat(bit_max))
        qi      == FloatToUInt64(qf)
        fixed   == IF qi # {} /\ qi \cap bit_max = {} THEN bit_max ELSE qi
        w       == bitbuf__write_bits(buf, fixed, num_bits)
    IN  [buffer |-> w.buffer,
         faults |-> width \cup order \cup inside \cup w.faults]

bitbuf_read_quantized_float(buf, read, num_bits, min, max, junk) ==
    LET width   == IF num_bits <= 31 THEN {} ELSE {"assert_num_bits"}
        order   == IF FloatLess(min, max) THEN {} ELSE {"assert_min_max"}
        r       == bitbuf_read_n_bits(buf, read, num_bits, junk)
        bit_max == bitbuf__spanmasktable(num_bits) \cap (0 .. 31)
        q       == FloatAdd(min,
                            FloatMul(FloatDiv(UIntToFloat(r.val),
                                              UIntToFloat(bit_max)),
                                     FloatSub(max, min)))
        inside  == IF ~FloatLess(q, min) /\ ~FloatLess(max, q)
                   THEN {} ELSE {"assert_q_in_range"}
    IN  [cursor |-> r.cursor, val |-> q,
         faults |-> width \cup order \cup r.faults \cup inside]

-----------------------------------------------------------------------------
(* The caller: the inputs of its calls, and what it remembers of them *)

\* the cursors the caller has declared
CursorIds == DOMAIN cursors

AllOnes(width) == bitbuf__spanmasktable(width)

\* every third bit and the top bit: a value with no symmetry
Pattern(width) == {i \in 0 .. (width - 1) : i % 3 = 0 \/ i = width - 1}

\* sizeof(T) * 8 of the types of BITBUF__DECL_WRITE / BITBUF__DECL_READ
TypeWidths == {8, 32, 64}

NBitWidths == {0, 63}

\* contents of the bytes a pun leaves unwritten, or of memory outside the array
JunkValues == {{}, U64Bits}

CStrings == {<<104, 200>>}

\* max_bytes of a bitbuf_read_cstr that is not a read-back
MaxBytesChoices == {1, 3}

\* byte images handed to bitbuf_alloc_buffer_with_bytes: one segment, and one
\* segment and a byte
TestImages == {<<104, 200, 0, 255, 1, 0, 128, 7>>,
               <<255, 255, 255, 255, 255, 255, 255, 129, 90>>}

WriteEntry(op, n, val, bits, before) ==
    [op |-> op, n |-> n, val |-> val, bits |-> bits,
     frozen |-> before.write.owner # NULL]

ReadEntry(op, n, val) == [op |-> op, n |-> n, val |-> val]

Pre == [buffer |-> buffer, cursors |-> cursors]

\* a write call with result w, logged as entry e
DoWrite(opname, w, e) ==
    /\ caller.writes > 0
    /\ caller' = [caller EXCEPT !.writes = @ - 1]
    /\ buffer' = w.buffer
    /\ written' = Append(written, e)
    /\ last' = [op |-> opname, cur |-> 0, n |-> e.bits, val |-> e.val,
                faults |-> w.faults, pre |-> Pre]
    /\ UNCHANGED <<cursors, hist, b89>>

\* bitbuf__advance_cursor(&buffer->write) where the read moves to a new segment
DoReadAdvancingWriter(opname, c, r, e) ==
    /\ cursors[c].owner # NULL
    /\ caller.reads > 0
    /\ caller' = [caller EXCEPT !.reads = @ - 1]
    /\ cursors' = [cursors EXCEPT ![c] = r.cursor]
    /\ hist' = [hist EXCEPT ![c] = Append(@, e)]
    /\ last' = [op |-> opname, cur |-> c, n |-> e.n, val |-> r.val,
                faults |-> r.faults, pre |-> Pre]
    /\ buffer' = IF r.cursor.seg # cursors[c].seg
                 THEN [buffer EXCEPT !.write = bitbuf__advance_cursor(@)]
                 ELSE buffer
    /\ UNCHANGED <<written, b89>>

\* a read call on cursor c with result r, logged as entry e
DoRead(opname, c, r, e) ==
    /\ cursors[c].owner # NULL
    /\ caller.reads > 0
    /\ caller' = [caller EXCEPT !.reads = @ - 1]
    /\ cursors' = [cursors EXCEPT ![c] = r.cursor]
    /\ hist' = [hist EXCEPT ![c] = Append(@, e)]
    /\ last' = [op |-> opname, cur |-> c, n |-> e.n, val |-> r.val,
                faults |-> r.faults, pre |-> Pre]
    /\ UNCHANGED <<buffer, written, b89>>

WriteBool ==
    \E value \in BOOLEAN, junk \in JunkValues :
        DoWrite("write_bool", bitbuf_write_bool(buffer, value, junk),
                WriteEntry("bool", 1, value, 1, buffer))

WriteType ==
    \E width \in TypeWidths, junk \in JunkValues :
        DoWrite("write_type",
                bitbuf_write_type(buffer, width, Pattern(width), junk),
                WriteEntry("type", width, Pattern(width), width, buffer))

WriteNBits(num_bits, value) ==
    DoWrite("write_n_bits", bitbuf_write_n_bits(buffer, num_bits, value),
            WriteEntry("n_bits", num_bits, value, num_bits, buffer))

WriteCstr(str) ==
    \E char_is_signed \in BOOLEAN :
        DoWrite("write_cstr", bitbuf_write_cstr(buffer, str, char_is_signed),
                WriteEntry("cstr", 0, str, 8 * (Len(str) + 1), buffer))

PadToByte ==
    DoWrite("pad_to_byte", bitbuf_pad_to_byte(buffer),
            WriteEntry("pad", 0, {},
                       BITBUF__ALIGN_UP_DELTA(buffer.write.bits_into_seg, 8), buffer))

CursorInit ==
    \E c \in CursorIds :
        /\ cursors[c].owner = NULL
        /\ LET r == bitbuf_cursor_init(buffer) IN
            /\ buffer' = r.buffer
            /\ cursors' = [cursors EXCEPT ![c] = r.cursor]
            /\ last' = [op |-> "cursor_init", cur |-> c, n |-> 0, val |-> {},
                        faults |-> {}, pre |-> Pre]
        /\ UNCHANGED <<written, hist, caller, b89>>

\* bitbuf_cursor_t d = c;
CursorCopy ==
    \E c \in CursorIds, d \in CursorIds :
        /\ c # d
        /\ cursors[c].owner # NULL
        /\ cursors[d].owner = NULL
        /\ cursors' = [cursors EXCEPT ![d] = cursors[c]]
        /\ hist' = [hist EXCEPT ![d] = hist[c]]
        /\ last' = [op |-> "cursor_copy", cur |-> d, n |-> 0, val |-> {},
                    faults |-> {}, pre |-> Pre]
        /\ UNCHANGED <<buffer, written, caller, b89>>

ReadBool(c) ==
    \E junk \in JunkValues :
        LET r == bitbuf_read_bool(buffer, cursors[c], junk)
        IN  DoRead("read_bool", c, r, ReadEntry("bool", 1, r.val))

ReadType(c, width) ==
    \E junk \in JunkValues :
        LET r == bitbuf_read_type(buffer, cursors[c], width, junk)
        IN  DoRead("read_type", c, r, ReadEntry("type", width, r.val))

ReadNBits(c, num_bits) ==
    \E junk \in JunkValues :
        LET r == bitbuf_read_n_bits(buffer, cursors[c], num_bits, junk)
        IN  DoRead("read_n_bits", c, r, ReadEntry("n_bits", num_bits, r.val))

ReadCstr(c, max_bytes) ==
    \E junk \in JunkValues :
        LET r == bitbuf_read_cstr(buffer, cursors[c], max_bytes, junk)
        IN  DoRead("read_cstr", c, r, ReadEntry("cstr", max_bytes, r.val))

SkipBytePadding(c) ==
    LET r == bitbuf_skip_byte_padding(buffer, cursors[c])
    IN  DoRead("skip_byte_padding", c, r, ReadEntry("pad", 0, r.val))

\* The caller reads back, with cursor c, the field it wrote k-th, k - 1 fields
\* having been read with c.
ReadBack ==
    \E c \in CursorIds :
        LET k == Len(hist[c]) + 1 IN
        /\ k <= Len(written)
        /\ \/ written[k].op = "bool" /\ ReadBool(c)
           \/ written[k].op = "type" /\ ReadType(c, written[k].n)
           \/ written[k].op = "n_bits" /\ ReadNBits(c, written[k].n)
           \/ written[k].op = "cstr" /\ \E spare \in {1, 2} :
                                            ReadCstr(c, Len(written[k].val) + spare)
           \/ written[k].op = "pad" /\ SkipBytePadding(c)

B89Idle == [pc |-> "idle"]

Init ==
    /\ \E max_bytes \in 1 .. MaxAllocBytes : buffer = bitbuf_alloc_buffer(max_bytes)
    /\ cursors = [c \in {1} |-> NoCursor]
    /\ written = << >>
    /\ hist = [c \in {1} |-> << >>]
    /\ caller = [writes |-> MaxWrites, reads |-> 2 * MaxWrites]
    /\ last = [op |-> "alloc", cur |-> 0, n |-> 0, val |-> {}, faults |-> {},
               pre |-> [buffer |-> buffer, cursors |-> cursors]]
    /\ b89 = B89Idle

Next ==
    \/ WriteBool
    \/ WriteType
    \/ \E num_bits \in NBitWidths : WriteNBits(num_bits, AllOnes(num_bits))
    \/ \E str \in CStrings : WriteCstr(str)
    \/ PadToByte
    \/ CursorInit
    \/ ReadBack

Spec == Init /\ [][Next]_vars

-----------------------------------------------------------------------------
(* A buffer made from a byte image and read by two cursors, each read any  *)
(* of the read calls at any width.                                         *)

InitCursors ==
    /\ \E bytes \in TestImages :
           buffer = bitbuf_alloc_buffer_with_bytes(bytes, Len(bytes))
    /\ cursors = [c \in {1, 2} |-> NoCursor]
    /\ written = << >>
    /\ hist = [c \in {1, 2} |-> << >>]
    /\ caller = [writes |-> 0, reads |-> MaxCursorReads]
    /\ last = [op |-> "alloc", cur |-> 0, n |-> 0, val |-> {}, faults |-> {},
               pre |-> [buffer |-> buffer, cursors |-> cursors]]
    /\ b89 = B89Idle

ReadAny ==
    \E c \in CursorIds :
        \/ ReadBool(c)
        \/ \E width \in TypeWidths : ReadType(c, width)
        \/ \E num_bits \in NBitWidths : ReadNBits(c, num_bits)
        \/ \E max_bytes \in MaxBytesChoices : ReadCstr(c, max_bytes)
        \/ SkipBytePadding(c)

NextCursors ==
    \/ CursorInit
    \/ CursorCopy
    \/ ReadAny

SpecCursors == InitCursors /\ [][NextCursors]_vars

-----------------------------------------------------------------------------
(* A writer that asks for the bytes of the buffer between its writes.      *)

GetBytes ==
    /\ last' = [op |-> "get_bytes", cur |-> 0, n |-> 0,
                val |-> bitbuf_get_bytes_from_buffer(buffer).out_num_bytes,
                faults |-> {}, pre |-> Pre]
    /\ UNCHANGED <<buffer, cursors, written, hist, caller, b89>>

NextBytes ==
    \/ WriteBool
    \/ WriteType
    \/ \E num_bits \in NBitWidths : WriteNBits(num_bits, AllOnes(num_bits))
    \/ \E str \in CStrings : WriteCstr(str)
    \/ PadToByte
    \/ CursorInit
    \/ GetBytes

SpecBytes == Init /\ [][NextBytes]_vars

-----------------------------------------------------------------------------
(* One n-bit field written at a chosen bit offset and read back: the       *)
(* caller writes caller.offset bits of ones, then the field, freezes the   *)
(* buffer, reads the leading bits and then the field.                      *)

FieldValues(num_bits) ==
    {{}, AllOnes(num_bits), Pattern(num_bits), {num_bits - 1}}

InitNBits ==
    /\ buffer = bitbuf_alloc_buffer(2 * 8)
    /\ cursors = [c \in {1} |-> NoCursor]
    /\ written = << >>
    /\ hist = [c \in {1} |-> << >>]
    /\ \E offset \in 0 .. BITBUF__SEG_BITS - 1, num_bits \in 1 .. BITBUF__SEG_BITS :
           \E value \in FieldValues(num_bits) :
               caller = [writes |-> 2, reads |-> 2, offset |-> offset,
                         num_bits |-> num_bits, value |-> value]
    /\ last = [op |-> "alloc", cur |-> 0, n |-> 0, val |-> {}, faults |-> {},
               pre |-> [buffer |-> buffer, cursors |-> cursors]]
    /\ b89 = B89Idle

WriteLead == Len(written) = 0 /\ WriteNBits(caller.offset, AllOnes(caller.offset))

WriteField == Len(written) = 1 /\ WriteNBits(caller.num_bits, caller.value)

Freeze == Len(written) = 2 /\ CursorInit

ReadLead == Len(hist[1]) = 0 /\ ReadNBits(1, caller.offset)

ReadField == Len(hist[1]) = 1 /\ ReadNBits(1, caller.num_bits)

NextNBits ==
    \/ WriteLead
    \/ WriteField
    \/ Freeze
    \/ ReadLead
    \/ ReadField

SpecNBits == InitNBits /\ [][NextNBits]_vars

-----------------------------------------------------------------------------
(* A writer that brings the write cursor to a chosen bit of the first or   *)
(* the second segment, pads to the byte and writes on.                     *)

InitPad ==
    /\ \E max_bytes \in {8, 16} : buffer = bitbuf_alloc_buffer(max_bytes)
    /\ cursors = [c \in {1} |-> NoCursor]
    /\ written = << >>
    /\ hist = [c \in {1} |-> << >>]
    /\ \E offset \in 0 .. BITBUF__SEG_BITS - 1, segs \in {0, 1} :
           caller = [writes |-> MaxPadWrites, reads |-> 0, offset |-> offset, segs |-> segs]
    /\ last = [op |-> "alloc", cur |-> 0, n |-> 0, val |-> {}, faults |-> {},
               pre |-> [buffer |-> buffer, cursors |-> cursors]]
    /\ b89 = B89Idle

WriteWholeSeg ==
    /\ Len(written) = 0
    /\ caller.segs = 1
    /\ WriteNBits(BITBUF__SEG_BITS, AllOnes(BITBUF__SEG_BITS))

WritePadLead ==
    /\ Len(written) = caller.segs
    /\ WriteNBits(caller.offset, AllOnes(caller.offset))

PadAtOffset == Len(written) > caller.segs /\ PadToByte

WriteAfterPad ==
    /\ last.op = "pad_to_byte"
    /\ \E width \in {8, 32} : WriteNBits(width, Pattern(width))

NextPad ==
    \/ WriteWholeSeg
    \/ WritePadLead
    \/ PadAtOffset
    \/ WriteAfterPad

SpecPad == InitPad /\ [][NextPad]_vars

-----------------------------------------------------------------------------
(* One string written at a chosen bit offset and read back: the caller     *)
(* writes caller.offset bits of ones, then the string, freezes the buffer, *)
(* reads the leading bits and then the string with room for caller.spare   *)
(* bytes more than it needs.                                               *)

\* the smallest char, the first negative signed char, the largest char
CstrBytes == {1, 128, 255}

RECURSIVE CstrsOfLen(_)
CstrsOfLen(n) ==
    IF n = 0 THEN {<< >>}
    ELSE {Append(t, b) : t \in CstrsOfLen(n - 1), b \in CstrBytes}

InitCstr ==
    /\ \E max_bytes \in {8, 16} : buffer = bitbuf_alloc_buffer(max_bytes)
    /\ cursors = [c \in {1} |-> NoCursor]
    /\ written = << >>
    /\ hist = [c \in {1} |-> << >>]
    /\ \E offset \in 0 .. BITBUF__SEG_BITS - 1, n \in 0 .. MaxCstrLen, spare \in {0, 1} :
           \E str \in CstrsOfLen(n) :
               caller = [writes |-> 2, reads |-> 2, offset |-> offset,
                         str |-> str, spare |-> spare]
    /\ last = [op |-> "alloc", cur |-> 0, n |-> 0, val |-> {}, faults |-> {},
               pre |-> [buffer |-> buffer, cursors |-> cursors]]
    /\ b89 = B89Idle

WriteCstrLead == Len(written) = 0 /\ WriteNBits(caller.offset, AllOnes(caller.offset))

WriteCstrField == Len(written) = 1 /\ WriteCstr(caller.str)

ReadCstrLead == Len(hist[1]) = 0 /\ ReadNBits(1, caller.offset)

ReadCstrField ==
    Len(hist[1]) = 1 /\ ReadCstr(1, Len(caller.str) + 1 + caller.spare)

NextCstr ==
    \/ WriteCstrLead
    \/ WriteCstrField
    \/ Freeze
    \/ ReadCstrLead
    \/ ReadCstrField

SpecCstr == InitCstr /\ [][NextCstr]_vars

-----------------------------------------------------------------------------
(* An n-bit field whose value has bits at or above bit n, written at a     *)
(* chosen offset and followed by a byte of zeros; all three fields are     *)
(* then read back.                                                         *)

\* values of 64 bits that do not fit num_bits bits
WideValues(num_bits) ==
    {U64Bits, {num_bits}, AllOnes(num_bits) \cup {63}}

InitWide ==
    /\ buffer = bitbuf_alloc_buffer(3 * 8)
    /\ cursors = [c \in {1} |-> NoCursor]
    /\ written = << >>
    /\ hist = [c \in {1} |-> << >>]
    /\ \E offset \in 0 .. BITBUF__SEG_BITS - 1, num_bits \in 0 .. BITBUF__SEG_BITS - 1 :
           \E value \in WideValues(num_bits) :
               caller = [writes |-> 3, reads |-> 3, offset |-> offset,
                         num_bits |-> num_bits, value |-> value]
    /\ last = [op |-> "alloc", cur |-> 0, n |-> 0, val |-> {}, faults |-> {},
               pre |-> [buffer |-> buffer, cursors |-> cursors]]
    /\ b89 = B89Idle

WriteNextField == Len(written) = 2 /\ WriteNBits(8, {})

FreezeAfterNextField == Len(written) = 3 /\ CursorInit

ReadNextField == Len(hist[1]) = 2 /\ ReadNBits(1, 8)

NextWide ==
    \/ WriteLead
    \/ WriteField
    \/ WriteNextField
    \/ FreezeAfterNextField
    \/ ReadLead
    \/ ReadField
    \/ ReadNextField

SpecWide == InitWide /\ [][NextWide]_vars

-----------------------------------------------------------------------------
(* A byte image made into a buffer in two ways: by bitbuf_alloc_buffer and *)
(* one bitbuf_write_uint8 per byte, or by bitbuf_alloc_buffer_with_bytes,  *)
(* after which the caller writes more bytes and reads the image back.      *)

ImageBytes == {90, 129}

RECURSIVE ImagesOfLen(_)
ImagesOfLen(n) ==
    IF n = 0 THEN {<< >>}
    ELSE {Append(t, b) : t \in ImagesOfLen(n - 1), b \in ImageBytes}

InitImage ==
    /\ cursors = [c \in {1} |-> NoCursor]
    /\ written = << >>
    /\ hist = [c \in {1} |-> << >>]
    /\ \E n \in 1 .. MaxImageBytes : \E bytes \in ImagesOfLen(n) :
           \/ /\ buffer = bitbuf_alloc_buffer(n)
              /\ caller = [writes |-> n, reads |-> 0, bytes |-> bytes, mode |-> "writes"]
           \/ /\ buffer = bitbuf_alloc_buffer_with_bytes(bytes, n)
              /\ caller = [writes |-> BITBUF__ALIGN_UP(n, 8) - n + 1, reads |-> n,
                           bytes |-> bytes, mode |-> "image"]
    /\ last = [op |-> "alloc", cur |-> 0, n |-> 0, val |-> {}, faults |-> {},
               pre |-> [buffer |-> buffer, cursors |-> cursors]]
    /\ b89 = B89Idle

\* bitbuf_write_uint8(&buf, bytes[k])
WriteImageByte ==
    /\ caller.mode = "writes"
    /\ \E junk \in JunkValues :
           LET value == ByteBits(caller.bytes[Len(written) + 1])
           IN  DoWrite("write_type", bitbuf_write_type(buffer, 8, value, junk),
                       WriteEntry("type", 8, value, 8, buffer))

\* bitbuf_write_uint8 on the buffer made from the image
WriteMoreBytes ==
    /\ caller.mode = "image"
    /\ buffer.write.owner = NULL
    /\ \E junk \in JunkValues :
           DoWrite("write_type", bitbuf_write_type(buffer, 8, ByteBits(255), junk),
                   WriteEntry("type", 8, ByteBits(255), 8, buffer))

FreezeImage == caller.mode = "image" /\ CursorInit

ReadImageByte == ReadType(1, 8)

NextImage ==
    \/ WriteImageByte
    \/ WriteMoreBytes
    \/ FreezeImage
    \/ ReadImageByte

SpecImage == InitImage /\ [][NextImage]_vars

-----------------------------------------------------------------------------
(* bitbuf__test_qfloat: one quantized float written at a chosen bit offset *)
(* and read back. The caller writes caller.offset bits of ones, then       *)
(* caller.value (the range's min or max) in caller.num_bits bits, freezes  *)
(* the buffer, and reads both back.                                        *)

\* (float)n for an int n
IntToFloat(n) ==
    IF n < 0 THEN FloatRound(-1, 0 - n, 0, FALSE) ELSE FloatRound(1, n, 0, FALSE)

\* the test's ranges, and some it leaves out: 0.1f and 0.7f are the floats
\* nearest 0.1 and 0.7
QFloatRanges ==
    { [min |-> IntToFloat(0), max |-> IntToFloat(1)],
      [min |-> IntToFloat(-1), max |-> IntToFloat(0)],
      [min |-> IntToFloat(-1), max |-> IntToFloat(1)],
      [min |-> IntToFloat(-32000), max |-> IntToFloat(32000)],
      [min |-> IntToFloat(0), max |-> IntToFloat(3)],
      [min |-> IntToFloat(-16777216), max |-> IntToFloat(1)],
      [min |-> [s |-> 1, m |-> 13421773, e |-> -27],
       max |-> [s |-> 1, m |-> 11744051, e |-> -24]] }

QFloatBits == 1 .. 31

QFloatOffsets == {0, 50}

InitQFloat ==
    /\ buffer = bitbuf_alloc_buffer(2 * 8)
    /\ cursors = [c \in {1} |-> NoCursor]
    /\ written = << >>
    /\ hist = [c \in {1} |-> << >>]
    /\ \E offset \in QFloatOffsets, num_bits \in QFloatBits,
          range \in QFloatRanges :
           \E value \in {range.min, range.max} :
               caller = [writes |-> 2, reads |-> 2, offset |-> offset,
                         num_bits |-> num_bits, min |-> range.min,
                         max |-> range.max, value |-> value]
    /\ last = [op |-> "alloc", cur |-> 0, n |-> 0, val |-> {}, faults |-> {},
               pre |-> [buffer |-> buffer, cursors |-> cursors]]
    /\ b89 = B89Idle

WriteQFloatLead ==
    Len(written) = 0 /\ WriteNBits(caller.offset, AllOnes(caller.offset))

WriteQuantizedFloat ==
    /\ Len(written) = 1
    /\ DoWrite("write_quantized_float",
               bitbuf_write_quantized_float(buffer, caller.num_bits, caller.min,
                                            caller.max, caller.value),
               WriteEntry("quantized_float", caller.num_bits, caller.value,
                          caller.num_bits, buffer))

FreezeQFloat == Len(written) = 2 /\ CursorInit

ReadQFloatLead == Len(hist[1]) = 0 /\ ReadNBits(1, caller.offset)

ReadQuantizedFloat ==
    /\ Len(hist[1]) = 1
    /\ \E junk \in JunkValues :
           DoRead("read_quantized_float", 1,
                  bitbuf_read_quantized_float(buffer, cursors[1], caller.num_bits,
                                              caller.min, caller.max, junk),
                  ReadEntry("quantized_float", caller.num_bits, caller.value))

NextQFloat ==
    \/ WriteQFloatLead
    \/ WriteQuantizedFloat
    \/ FreezeQFloat
    \/ ReadQFloatLead
    \/ ReadQuantizedFloat

SpecQFloat == InitQFloat /\ [][NextQFloat]_vars

-----------------------------------------------------------------------------
(* A caller free to pick the width of every call: a buffer from either     *)
(* allocator, bitbuf_write_n_bits and bitbuf_pad_to_byte calls, then       *)
(* bitbuf_cursor_init, then bitbuf_read_n_bits and bitbuf_skip_byte_padding *)
(* calls, whether or not they fit.                                         *)

AnyWidths == {0, 1, 63, 64}

InitAny ==
    /\ buffer \in {bitbuf_alloc_buffer(max_bytes) : max_bytes \in {8, 16}}
                  \cup {bitbuf_alloc_buffer_with_bytes(bytes, Len(bytes)) :
                        bytes \in TestImages}
    /\ cursors = [c \in {1} |-> NoCursor]
    /\ written = << >>
    /\ hist = [c \in {1} |-> << >>]
    /\ caller = [writes |-> MaxAnyWrites, reads |-> MaxAnyReads]
    /\ last = [op |-> "alloc", cur |-> 0, n |-> 0, val |-> {}, faults |-> {},
               pre |-> [buffer |-> buffer, cursors |-> cursors]]
    /\ b89 = B89Idle

NextAny ==
    \/ /\ buffer.write.owner = NULL
       /\ \E num_bits \in AnyWidths : WriteNBits(num_bits, AllOnes(num_bits))
    \/ /\ buffer.write.owner = NULL
       /\ PadToByte
    \/ CursorInit
    \/ \E num_bits \in AnyWidths : ReadNBits(1, num_bits)
    \/ SkipBytePadding(1)

SpecAny == InitAny /\ [][NextAny]_vars

-----------------------------------------------------------------------------
(* ftg_base89.h: the four-byte code.  A B89__u32 is kept as its two 16-bit *)
(* halves, lo holding bytes 0 and 1 of the little-endian word.             *)

B89_ST == 3
B89_ERROR_INDEX == 0
B89_CODE_MAX == 704968
B89__ORD_MIN == 38
B89__ORD_MAX == 126
B89__ORD_BASE == (B89__ORD_MAX - B89__ORD_MIN) + 1

\* memcpy(&qword, bytes, 4)
LoadU32(bytes) ==
    [lo |-> bytes[1] + 256 * bytes[2], hi |-> bytes[3] + 256 * bytes[4]]

\* the upper bound on c3 left unchecked
decode_base89_c3_unbounded(packed_code, max_index) ==
    LET st == packed_code.lo % 256
        c1 == (packed_code.lo \div 256) % 256
        c2 == packed_code.hi % 256
        c3 == (packed_code.hi \div 256) % 256
    IN  IF \/ st # B89_ST
           \/ c1 < B89__ORD_MIN \/ c1 > B89__ORD_MAX
           \/ c2 < B89__ORD_MIN \/ c2 > B89__ORD_MAX
           \/ c3 < B89__ORD_MIN
        THEN 0
        ELSE LET d1 == c1 - B89__ORD_MIN
                 d2 == c2 - B89__ORD_MIN
                 d3 == c3 - B89__ORD_MIN
                 index == (((d3 * B89__ORD_BASE) + d2) * B89__ORD_BASE) + d1
             IN  IF index <= max_index THEN index ELSE 0

decode_base89(packed_code, max_index) ==
    LET st == packed_code.lo % 256
        c1 == (packed_code.lo \div 256) % 256
        c2 == packed_code.hi % 256
        c3 == (packed_code.hi \div 256) % 256
    IN  IF \/ st # B89_ST
           \/ c1 < B89__ORD_MIN \/ c1 > B89__ORD_MAX
           \/ c2 < B89__ORD_MIN \/ c2 > B89__ORD_MAX
           \/ c3 < B89__ORD_MIN \/ c3 > B89__ORD_MAX
        THEN 0
        ELSE LET d1 == c1 - B89__ORD_MIN
                 d2 == c2 - B89__ORD_MIN
                 d3 == c3 - B89__ORD_MIN
                 index == (((d3 * B89__ORD_BASE) + d2) * B89__ORD_BASE) + d1
             IN  IF index <= max_index THEN index ELSE 0

\* the second digit taken before the first division
b89_pack_c2_undivided(index) ==
    LET c1 == index % 89
        c2 == index % 89
        c3 == ((index \div 89) \div 89) % 89
    IN  [bytes  |-> <<B89_ST, c1 + B89__ORD_MIN, c2 + B89__ORD_MIN, c3 + B89__ORD_MIN>>,
         faults |-> IF index <= B89_CODE_MAX THEN {} ELSE {"assert_index"}]

\* the digits stored most significant first
b89_pack_digits_reversed(index) ==
    LET c1 == index % 89
        c2 == (index \div 89) % 89
        c3 == ((index \div 89) \div 89) % 89
    IN  [bytes  |-> <<B89_ST, c3 + B89__ORD_MIN, c2 + B89__ORD_MIN, c1 + B89__ORD_MIN>>,
         faults |-> IF index <= B89_CODE_MAX THEN {} ELSE {"assert_index"}]

b89_pack(index) ==
    LET c1 == index % 89
        c2 == (index \div 89) % 89
        c3 == ((index \div 89) \div 89) % 89
    IN  [bytes  |-> <<B89_ST, c1 + B89__ORD_MIN, c2 + B89__ORD_MIN, c3 + B89__ORD_MIN>>,
         faults |-> IF index <= B89_CODE_MAX THEN {} ELSE {"assert_index"}]

\* the gate of decode_base89 admitting one index above max_index
b89_unpack_max_plus_one(bytes, max_index) == decode_base89(LoadU32(bytes), max_index + 1)

b89_unpack(bytes, max_index) == decode_base89(LoadU32(bytes), max_index)

(* The caller either packs an index and unpacks the four bytes it got, or  *)
(* unpacks four bytes that came from elsewhere.                            *)

DigitSamples == {0, 1, 43, 44, 87, 88}

IndexSamples ==
    {d1 + 89 * d2 + 7921 * d3 : d1 \in DigitSamples, d2 \in DigitSamples, d3 \in DigitSamples}
        \cup {192, B89_CODE_MAX + 1}

MaxIndexSamples(index) ==
    {m \in {0, index - 1, index, index + 1, 1000, B89_CODE_MAX, 2000000} : m >= 0}

ByteSamples == {0, 2, 3, 4, 37, 38, 39, 126, 127, 255}

InitB89 ==
    /\ buffer = bitbuf_alloc_buffer(8)
    /\ cursors = [c \in {1} |-> NoCursor]
    /\ written = << >>
    /\ hist = [c \in {1} |-> << >>]
    /\ caller = [writes |-> 0, reads |-> 0]
    /\ last = [op |-> "alloc", cur |-> 0, n |-> 0, val |-> {}, faults |-> {},
               pre |-> [buffer |-> buffer, cursors |-> cursors]]
    /\ \/ \E index \in IndexSamples : \E max_index \in MaxIndexSamples(index) :
              b89 = [pc |-> "pack", index |-> index, max_index |-> max_index,
                     bytes |-> <<0, 0, 0, 0>>, packed |-> FALSE,
                     out_index |-> 0, faults |-> {}]
       \/ \E b0 \in ByteSamples, b1 \in ByteSamples, b2 \in ByteSamples, b3 \in ByteSamples :
              \E max_index \in {0, 1000, B89_CODE_MAX, 2000000} :
              b89 = [pc |-> "unpack", index |-> 0, max_index |-> max_index,
                     bytes |-> <<b0, b1, b2, b3>>, packed |-> FALSE,
                     out_index |-> 0, faults |-> {}]

B89Pack ==
    /\ b89.pc = "pack"
    /\ LET w == b89_pack(b89.index)
       IN  b89' = [b89 EXCEPT !.pc = "unpack", !.bytes = w.bytes,
                              !.packed = TRUE, !.faults = w.faults]
    /\ UNCHANGED <<buffer, cursors, written, hist, last, caller>>

B89Unpack ==
    /\ b89.pc = "unpack"
    /\ b89' = [b89 EXCEPT !.pc = "done",
                          !.out_index = b89_unpack(b89.bytes, b89.max_index)]
    /\ UNCHANGED <<buffer, cursors, written, hist, last, caller>>

NextB89 ==
    \/ B89Pack
    \/ B89Unpack

SpecB89 == InitB89 /\ [][NextB89]_vars

-----------------------------------------------------------------------------
(* ftg_base89.h: the iterator.  A pointer into the string is the offset of *)
(* the byte it points at; the byte at offset p is str[p + 1].              *)

RECURSIVE ByteXor(_, _)
ByteXor(a, b) ==
    IF a = 0 /\ b = 0 THEN 0
    ELSE (((a % 2) + (b % 2)) % 2) + 2 * ByteXor(a \div 2, b \div 2)

\* has_match of scan_string_seg for the 8 bytes at str + in: the byte lanes k
\* whose bit 8k+7 is set in (diff - HAS_ZERO_SUB) & ~diff & HAS_ZERO_HIGH, the
\* subtraction carried lane by lane from the lowest, bytes[in + k] in lane k
RECURSIVE HasMatchLanes(_, _, _, _)
HasMatchLanes(str, in, k, borrow) ==
    IF k = 8 THEN {}
    ELSE LET diff == ByteXor(str[in + k + 1], B89_ST)
             t    == diff - 1 - borrow
             sub  == (t + 256) % 256
             hit  == sub >= 128 /\ diff < 128
         IN  (IF hit THEN {k} ELSE {})
                 \cup HasMatchLanes(str, in, k + 1, IF t < 0 THEN 1 ELSE 0)

\* the lane ctz finds first is the highest one
get_first_match_index_highest(has_match) ==
    CHOOSE k \in has_match : \A j \in has_match : j <= k

\* __builtin_ctzll(has_match) / 8
get_first_match_index(has_match) ==
    CHOOSE k \in has_match : \A j \in has_match : k <= j

RECURSIVE scan_string_seg_tail(_, _, _)
scan_string_seg_tail(str, in, end) ==
    IF in < end
    THEN IF str[in + 1] = B89_ST THEN in ELSE scan_string_seg_tail(str, in + 1, end)
    ELSE end

\* the tail loop left out: fewer than 8 bytes are not looked at
RECURSIVE scan_string_seg_no_tail(_, _, _)
scan_string_seg_no_tail(str, in, end) ==
    IF in + 8 <= end
    THEN LET has_match == HasMatchLanes(str, in, 0, 0)
         IN  IF has_match # {}
             THEN in + get_first_match_index(has_match)
             ELSE scan_string_seg_no_tail(str, in + 8, end)
    ELSE end

\* the value left in *p_in
RECURSIVE scan_string_seg(_, _, _)
scan_string_seg(str, in, end) ==
    IF in + 8 <= end
    THEN LET has_match == HasMatchLanes(str, in, 0, 0)
         IN  IF has_match # {}
             THEN in + get_first_match_index(has_match)
             ELSE scan_string_seg(str, in + 8, end)
    ELSE scan_string_seg_tail(str, in, end)

NoEvent == [type |-> "unset"]

b89_iter_init(str_bytes, max_index) ==
    [pos |-> 0, end |-> str_bytes, max_index |-> max_index, event |-> NoEvent]

\* the four bytes taken most significant first
LoadU32At_big_endian(str, pos) ==
    LoadU32(<<str[pos + 4], str[pos + 3], str[pos + 2], str[pos + 1]>>)

\* memcpy(&packed_code, it->pos, 4)
LoadU32At(str, pos) == LoadU32(SubSeq(str, pos + 1, pos + 4))

\* a code advancing pos by its three digits only
b89_iter_next_advance_3(it, str) ==
    IF it.pos >= it.end THEN [it |-> it, ret |-> 0]
    ELSE
    LET unemitted_seg == it.pos
        pos           == scan_string_seg(str, it.pos, it.end)
    IN  IF unemitted_seg # pos
        THEN [it  |-> [it EXCEPT !.pos = pos,
                                 !.event = [type |-> "B89_EVENT_TEXT",
                                            ptr |-> unemitted_seg,
                                            len |-> pos - unemitted_seg]],
              ret |-> 1]
        ELSE IF str[pos + 1] = B89_ST
        THEN IF it.end - pos < 4
             THEN [it  |-> [it EXCEPT !.pos = it.end,
                                      !.event = [type |-> "B89_EVENT_CODE",
                                                 index |-> B89_ERROR_INDEX]],
                   ret |-> 0]
             ELSE [it  |-> [it EXCEPT !.pos = pos + 3,
                                      !.event = [type |-> "B89_EVENT_CODE",
                                                 index |-> decode_base89(LoadU32At(str, pos),
                                                                         it.max_index)]],
                   ret |-> 1]
        ELSE [it |-> [it EXCEPT !.pos = pos], ret |-> 0]

\* a truncated code handed to the caller as an event
b89_iter_next_truncated_reported(it, str) ==
    IF it.pos >= it.end THEN [it |-> it, ret |-> 0]
    ELSE
    LET unemitted_seg == it.pos
        pos           == scan_string_seg(str, it.pos, it.end)
    IN  IF unemitted_seg # pos
        THEN [it  |-> [it EXCEPT !.pos = pos,
                                 !.event = [type |-> "B89_EVENT_TEXT",
                                            ptr |-> unemitted_seg,
                                            len |-> pos - unemitted_seg]],
              ret |-> 1]
        ELSE IF str[pos + 1] = B89_ST
        THEN IF it.end - pos < 4
             THEN [it  |-> [it EXCEPT !.pos = it.end,
                                      !.event = [type |-> "B89_EVENT_CODE",
                                                 index |-> B89_ERROR_INDEX]],
                   ret |-> 1]
             ELSE [it  |-> [it EXCEPT !.pos = pos + 4,
                                      !.event = [type |-> "B89_EVENT_CODE",
                                                 index |-> decode_base89(LoadU32At(str, pos),
                                                                         it.max_index)]],
                   ret |-> 1]
        ELSE [it |-> [it EXCEPT !.pos = pos], ret |-> 0]

\* a code that decodes to the error index left unconsumed
b89_iter_next_invalid_unconsumed(it, str) ==
    IF it.pos >= it.end THEN [it |-> it, ret |-> 0]
    ELSE
    LET unemitted_seg == it.pos
        pos           == scan_string_seg(str, it.pos, it.end)
    IN  IF unemitted_seg # pos
        THEN [it  |-> [it EXCEPT !.pos = pos,
                                 !.event = [type |-> "B89_EVENT_TEXT",
                                            ptr |-> unemitted_seg,
                                            len |-> pos - unemitted_seg]],
              ret |-> 1]
        ELSE IF str[pos + 1] = B89_ST
        THEN IF it.end - pos < 4
             THEN [it  |-> [it EXCEPT !.pos = it.end,
                                      !.event = [type |-> "B89_EVENT_CODE",
                                                 index |-> B89_ERROR_INDEX]],
                   ret |-> 0]
             ELSE LET index == decode_base89(LoadU32At(str, pos), it.max_index)
                  IN  [it  |-> [it EXCEPT !.pos = IF index = B89_ERROR_INDEX
                                                  THEN pos ELSE pos + 4,
                                          !.event = [type |-> "B89_EVENT_CODE",
                                                     index |-> index]],
                       ret |-> 1]
        ELSE [it |-> [it EXCEPT !.pos = pos], ret |-> 0]

b89_iter_next(it, str) ==
    IF it.pos >= it.end THEN [it |-> it, ret |-> 0]
    ELSE
    LET unemitted_seg == it.pos
        pos           == scan_string_seg(str, it.pos, it.end)
    IN  IF unemitted_seg # pos
        THEN [it  |-> [it EXCEPT !.pos = pos,
                                 !.event = [type |-> "B89_EVENT_TEXT",
                                            ptr |-> unemitted_seg,
                                            len |-> pos - unemitted_seg]],
              ret |-> 1]
        ELSE IF str[pos + 1] = B89_ST
        THEN IF it.end - pos < 4
             THEN [it  |-> [it EXCEPT !.pos = it.end,
                                      !.event = [type |-> "B89_EVENT_CODE",
                                                 index |-> B89_ERROR_INDEX]],
                   ret |-> 0]
             ELSE [it  |-> [it EXCEPT !.pos = pos + 4,
                                      !.event = [type |-> "B89_EVENT_CODE",
                                                 index |-> decode_base89(LoadU32At(str, pos),
                                                                         it.max_index)]],
                   ret |-> 1]
        ELSE [it |-> [it EXCEPT !.pos = pos], ret |-> 0]

(* The caller of the header's ITERATOR USAGE: b89_iter_init over a string, *)
(* then b89_iter_next until it returns 0, keeping the events it was given  *)
(* and the range of the string each of them stands for.                    *)

\* the escape byte, a byte below the digit range, a digit
StrBytes == {3, 2, 40}

RECURSIVE StringsOfLen(_)
StringsOfLen(n) ==
    IF n = 0 THEN {<< >>}
    ELSE {Append(t, b) : t \in StringsOfLen(n - 1), b \in StrBytes}

InitIter ==
    /\ buffer = bitbuf_alloc_buffer(8)
    /\ cursors = [c \in {1} |-> NoCursor]
    /\ written = << >>
    /\ hist = [c \in {1} |-> << >>]
    /\ caller = [writes |-> 0, reads |-> 0]
    /\ last = [op |-> "alloc", cur |-> 0, n |-> 0, val |-> {}, faults |-> {},
               pre |-> [buffer |-> buffer, cursors |-> cursors]]
    /\ \E n \in 0 .. MaxStrBytes : \E str \in StringsOfLen(n) :
           \E max_index \in {3, B89_CODE_MAX} :
               b89 = [pc |-> "iter", str |-> str,
                      it |-> b89_iter_init(Len(str), max_index),
                      pre |-> b89_iter_init(Len(str), max_index),
                      calls |-> 0, events |-> << >>]

\* while (b89_iter_next(&it)) { ... it.event ... }
IterNext ==
    /\ b89.pc = "iter"
    /\ LET r == b89_iter_next(b89.it, b89.str)
       IN  b89' = [b89 EXCEPT
                     !.pc = IF r.ret = 0 THEN "iter_done" ELSE "iter",
                     !.it = r.it,
                     !.pre = b89.it,
                     !.calls = 1,
                     !.events = IF r.ret = 0 THEN @
                                ELSE Append(@, [event |-> r.it.event,
                                                from |-> b89.it.pos,
                                                to |-> r.it.pos])]
    /\ UNCHANGED <<buffer, cursors, written, hist, last, caller>>

NextIter == IterNext

SpecIter == InitIter /\ [][NextIter]_vars

-----------------------------------------------------------------------------
(* scan_string_seg on its own: a byte range [in, end) of a string whose    *)
(* bytes are digits but for at most two escape bytes and at most one 0x02, *)
(* and which may go on one byte past end.                                  *)

\* the string of n bytes with B89_ST at the offsets in st and 0x02 at those
\* in two
ScanString(n, st, two) ==
    [i \in 1 .. n |-> IF (i - 1) \in st THEN B89_ST
                      ELSE IF (i - 1) \in two THEN 2 ELSE 40]

ScanStrings(n) ==
    {ScanString(n, st, two) :
        st \in {x \in SUBSET (0 .. n - 1) : Cardinality(x) <= 2},
        two \in {{}} \cup {{q} : q \in 1 .. n - 1}}

InitScan ==
    /\ buffer = bitbuf_alloc_buffer(8)
    /\ cursors = [c \in {1} |-> NoCursor]
    /\ written = << >>
    /\ hist = [c \in {1} |-> << >>]
    /\ caller = [writes |-> 0, reads |-> 0]
    /\ last = [op |-> "alloc", cur |-> 0, n |-> 0, val |-> {}, faults |-> {},
               pre |-> [buffer |-> buffer, cursors |-> cursors]]
    /\ \E n \in 0 .. MaxScanBytes : \E str \in ScanStrings(n) :
           \E end \in {n - 1, n} \cap (0 .. n) : \E in \in {0, 1, end} \cap (0 .. end) :
               b89 = [pc |-> "scan", str |-> str, in |-> in, end |-> end,
                      p_in |-> in]

\* scan_string_seg(&in, end)
ScanStringSeg ==
    /\ b89.pc = "scan"
    /\ b89' = [b89 EXCEPT !.pc = "scanned",
                          !.p_in = scan_string_seg(b89.str, b89.in, b89.end)]
    /\ UNCHANGED <<buffer, cursors, written, hist, last, caller>>

NextScan == ScanStringSeg

SpecScan == InitScan /\ [][NextScan]_vars

-----------------------------------------------------------------------------
(* The header's ITERATOR USAGE with the string built as there: texts and   *)
(* the four bytes b89_pack gives for an index, concatenated (mode          *)
(* "packed"), or a string of arbitrary bytes (mode "raw").  The caller     *)
(* calls b89_iter_next until it returns 0, and then again.                 *)

\* the sequences of n items, an item a non-empty text without B89_ST or an
\* index in 1 .. max_index, no text next to a text
RECURSIVE ItemSeqs(_, _)
ItemSeqs(n, max_index) ==
    LET texts == {[kind |-> "text", bytes |-> t] :
                    t \in {<<2>>, <<40, 38>>,
                           <<72, 101, 108, 108, 111, 44, 32, 103, 117>>}}
        codes == {[kind |-> "code", index |-> i] :
                    i \in {j \in {1, 88, 89, 192, 7921, B89_CODE_MAX} : j <= max_index}}
    IN  IF n = 0 THEN {<< >>}
        ELSE {Append(s, x) : s \in ItemSeqs(n - 1, max_index), x \in codes}
             \cup {Append(s, x) :
                     s \in {r \in ItemSeqs(n - 1, max_index) :
                              r = << >> \/ r[Len(r)].kind = "code"},
                     x \in texts}

\* the string literal: each text, each index as the bytes b89_pack stores
RECURSIVE ItemsString(_)
ItemsString(items) ==
    IF items = << >> THEN << >>
    ELSE (IF Head(items).kind = "text" THEN Head(items).bytes
          ELSE b89_pack(Head(items).index).bytes) \o ItemsString(Tail(items))

InitTokens ==
    /\ buffer = bitbuf_alloc_buffer(8)
    /\ cursors = [c \in {1} |-> NoCursor]
    /\ written = << >>
    /\ hist = [c \in {1} |-> << >>]
    /\ caller = [writes |-> 0, reads |-> 0]
    /\ last = [op |-> "alloc", cur |-> 0, n |-> 0, val |-> {}, faults |-> {},
               pre |-> [buffer |-> buffer, cursors |-> cursors]]
    /\ \E max_index \in {192, B89_CODE_MAX, 2000000} :
           \/ \E n \in 0 .. MaxItems : \E items \in ItemSeqs(n, max_index) :
                  b89 = [pc |-> "iter", mode |-> "packed", items |-> items,
                         str |-> ItemsString(items),
                         it |-> b89_iter_init(Len(ItemsString(items)), max_index),
                         pre |-> b89_iter_init(Len(ItemsString(items)), max_index),
                         calls |-> 0, events |-> << >>, late |-> << >>]
           \/ \E n \in 0 .. MaxRawBytes : \E str \in StringsOfLen(n) :
                  b89 = [pc |-> "iter", mode |-> "raw", items |-> << >>,
                         str |-> str,
                         it |-> b89_iter_init(Len(str), max_index),
                         pre |-> b89_iter_init(Len(str), max_index),
                         calls |-> 0, events |-> << >>, late |-> << >>]

\* b89_iter_next called after it has returned 0; late keeps what it returned
NextTokens ==
    \/ IterNext
    \/ /\ b89.pc = "iter_done"
       /\ Len(b89.late) < MaxLateCalls
       /\ LET r == b89_iter_next(b89.it, b89.str)
          IN  b89' = [b89 EXCEPT !.it = r.it,
                                 !.pre = b89.it,
                                 !.late = Append(@, r.ret)]
       /\ UNCHANGED <<buffer, cursors, written, hist, last, caller>>

SpecTokens == InitTokens /\ [][NextTokens]_vars

-----------------------------------------------------------------------------
(* Claims checked under Spec: a buffer from bitbuf_alloc_buffer, written   *)
(* by the caller, who reads the fields back in the order written.          *)

RECURSIVE SumBits(_)
SumBits(entries) ==
    IF entries = << >> THEN 0 ELSE Head(entries).bits + SumBits(Tail(entries))

\* the read r is the one that matches the write w
MatchingRead(w, r) ==
    /\ w.op = r.op
    /\ CASE w.op = "cstr"   -> r.n >= Len(w.val) + 1
         [] w.op = "n_bits" -> r.n = w.n /\ w.val \subseteq bitbuf__spanmasktable(w.n)
         [] OTHER           -> r.n = w.n

\* cursor c was created after the last write, the writes fit the capacity,
\* and c has been driven with the reads matching the first writes
ReadBackCase(c) ==
    /\ cursors[c].owner # NULL
    /\ \A i \in DOMAIN written : ~written[i].frozen
    /\ SumBits(written) <= buffer.capacity_bytes * 8
    /\ Len(hist[c]) <= Len(written)
    /\ \A i \in DOMAIN hist[c] : MatchingRead(written[i], hist[c][i])

\* C1: every sequence of typed writes that fits the capacity is returned, value
\* by value and in write order, to a cursor created afterwards and driven with
\* the matching reads, and neither truncated nor read_past_end is set.
C1_RoundTrip ==
    \A c \in CursorIds :
        ReadBackCase(c) =>
            /\ \A i \in DOMAIN hist[c] : hist[c][i].val = written[i].val
            /\ cursors[c].read_past_end = 0
            /\ buffer.truncated = 0

\* three fields read back, the second one straddling segments 0 and 1, the
\* third one a string
C1_Witness ==
    /\ ReadBackCase(1)
    /\ Len(hist[1]) = Len(written)
    /\ Len(written) >= 3
    /\ written[1].op = "n_bits" /\ written[1].n = 63
    /\ written[2].op = "type" /\ written[2].n = 32
    /\ written[3].op = "cstr"

\* the calls that are one call of bitbuf__write_bits
SingleWriteOps == {"write_bool", "write_type", "write_n_bits", "pad_to_byte"}

WriteOps == SingleWriteOps \cup {"write_cstr"}

\* capacity_bits - used_bits of the write cursor
RemainingWriteBits(buf) ==
    buf.capacity_bytes * 8 - (buf.write.seg * 64 + buf.write.bits_into_seg)

\* C3: a write of N bits with fewer than N bits of capacity left sets truncated
\* and commits nothing: the segments and the write cursor are as before the call.
C3_TruncatedWriteCommitsNothing ==
    (last.op \in SingleWriteOps /\ last.n > RemainingWriteBits(last.pre.buffer)) =>
        /\ buffer.truncated = 1
        /\ buffer.data = last.pre.buffer.data
        /\ buffer.write = last.pre.buffer.write

\* a write that does not fit and would have straddled a segment boundary
C3_Witness ==
    /\ last.op \in SingleWriteOps
    /\ last.n > RemainingWriteBits(last.pre.buffer)
    /\ last.pre.buffer.write.bits_into_seg > 0
    /\ last.pre.buffer.write.bits_into_seg + last.n > 64
    /\ last.pre.buffer.truncated = 0
    /\ buffer.truncated = 1

\* C5: once bitbuf_cursor_init has been called on the buffer, a write leaves the
\* segments, the write cursor and the truncated flag unchanged.
C5_WriteAfterFreezeSkipped ==
    (last.op \in WriteOps /\ last.pre.buffer.write.owner # NULL) =>
        /\ buffer.data = last.pre.buffer.data
        /\ buffer.write = last.pre.buffer.write
        /\ buffer.truncated = last.pre.buffer.truncated

\* C8: once truncated is set, bitbuf_has_truncated stays true after every
\* library call.
C8_TruncatedSticky ==
    bitbuf_has_truncated(last.pre.buffer) => bitbuf_has_truncated(buffer)

\* a write that fits, made after a write that was truncated
C8_Witness ==
    /\ bitbuf_has_truncated(last.pre.buffer)
    /\ last.op \in WriteOps
    /\ last.n > 0
    /\ buffer.write # last.pre.buffer.write
    /\ bitbuf_has_truncated(buffer)

\* the set bits of a written field, counted from its first bit
FieldBits(w) ==
    CASE w.op = "bool" -> IF w.val THEN {0} ELSE {}
      [] w.op = "cstr" -> UNION {{8 * (k - 1) + b : b \in ByteBits(w.val[k])} :
                                 k \in DOMAIN w.val}
      [] w.op = "pad"  -> {}
      [] OTHER         -> w.val \cap (0 .. (w.bits - 1))

\* the set bits of the concatenation of the written fields
StreamBits ==
    UNION {{SumBits(SubSeq(written, 1, i - 1)) + b : b \in FieldBits(written[i])} :
           i \in DOMAIN written}

\* every write so far was made before the freeze and fitted
AllWritesSucceeded ==
    /\ buffer.truncated = 0
    /\ \A i \in DOMAIN written : ~written[i].frozen

\* C17: after writes that all succeeded, bit p of the concatenation of the
\* fields is bit (p mod 64) of segment (p div 64), nothing else is set, and the
\* write cursor stands at the sum of the field widths.
C17_ContiguousLsbFirst ==
    AllWritesSucceeded =>
        /\ \A seg \in DOMAIN buffer.data :
               buffer.data[seg] = {p % 64 : p \in {q \in StreamBits : q \div 64 = seg}}
        /\ buffer.write.seg * 64 + buffer.write.bits_into_seg = SumBits(written)

\* a bool and a 32-bit value in the first 33 bits, then a 63-bit field that
\* runs over into segment 1
C17_Witness ==
    /\ AllWritesSucceeded
    /\ Len(written) = 3
    /\ written[1].op = "bool" /\ written[1].val = TRUE
    /\ written[2].op = "type" /\ written[2].n = 32
    /\ written[3].op = "n_bits" /\ written[3].n = 63
    /\ buffer.write = [seg |-> 1, bits_into_seg |-> 32, owner |-> NULL]
    /\ 0 \in buffer.data[0] /\ 33 \in buffer.data[0] /\ 31 \in buffer.data[1]

\* the set bits of the buffer from bit p of the bit stream on
BitsFrom(buf, p) ==
    {q \in {(seg * 64) + b : seg \in DOMAIN buf.data, b \in U64Bits} :
        q >= p /\ (q % 64) \in buf.data[q \div 64]}

\* the set bits of the buffer before bit p of the bit stream
BitsBefore(buf, p) ==
    {q \in {(seg * 64) + b : seg \in DOMAIN buf.data, b \in U64Bits} :
        q < p /\ (q % 64) \in buf.data[q \div 64]}

-----------------------------------------------------------------------------
(* Claims checked under SpecCursors *)

\* the read calls that are one call of bitbuf__read_bits
SingleReadOps == {"read_bool", "read_type", "read_n_bits"}

ReadOps == SingleReadOps \cup {"read_cstr", "skip_byte_padding"}

\* the bits between a cursor and the end of the segment array
BitsToEnd(buf, cursor) == (SegCount(buf) - cursor.seg) * 64 - cursor.bits_into_seg

\* C4: a read of N bits by a cursor with fewer than N bits between it and the
\* end of the buffer sets read_past_end on that cursor and returns 0.
C4_ReadPastEndFlagged ==
    (/\ last.op \in SingleReadOps
     /\ last.n > BitsToEnd(last.pre.buffer, last.pre.cursors[last.cur])) =>
        /\ cursors[last.cur].read_past_end = 1
        /\ last.val \in {{}, FALSE}

\* the two cursors have been driven by the same sequence of read calls
SameReads ==
    /\ cursors[1].owner # NULL
    /\ cursors[2].owner # NULL
    /\ Len(hist[1]) = Len(hist[2])
    /\ \A i \in DOMAIN hist[1] :
           hist[1][i].op = hist[2][i].op /\ hist[1][i].n = hist[2][i].n

\* C6: on a frozen buffer that is no longer written, two cursors driven by the
\* same sequence of reads return the same values and reach the same state.
C6_CursorsAgree ==
    SameReads =>
        /\ \A i \in DOMAIN hist[1] : hist[1][i].val = hist[2][i].val
        /\ cursors[1] = cursors[2]

CursorPosition(cursor) == cursor.seg * 64 + cursor.bits_into_seg

\* the byte held in the 8 bits from bit p of the buffer on
StreamByte(buf, p) ==
    BitsByte({b \in 0 .. 7 : ((p + b) % 64) \in buf.data[(p + b) \div 64]})

\* bitbuf_read_cstr has just returned; the max_bytes bytes from where its
\* cursor stood lie within the buffer and none of them is 0x00
CstrOverflowCase ==
    /\ last.op = "read_cstr"
    /\ last.n >= 1
    /\ LET start == CursorPosition(last.pre.cursors[last.cur])
       IN  /\ start + 8 * last.n <= SegCount(buffer) * 64
           /\ \A k \in 0 .. (last.n - 1) : StreamByte(buffer, start + 8 * k) # 0

\* C20: when none of the max_bytes bytes read is 0x00, bitbuf_read_cstr leaves
\* an empty string in out_str and the cursor max_bytes * 8 bits beyond where
\* the call started.
C20_CstrOverflowNotRewound ==
    CstrOverflowCase =>
        /\ last.val = << >>
        /\ CursorPosition(cursors[last.cur]) =
               CursorPosition(last.pre.cursors[last.cur]) + 8 * last.n
        /\ cursors[last.cur].read_past_end = last.pre.cursors[last.cur].read_past_end

\* three bytes without a terminator read from a cursor that is not byte aligned
C20_Witness ==
    /\ CstrOverflowCase
    /\ last.n = 3
    /\ last.pre.cursors[last.cur].seg = 0
    /\ last.pre.cursors[last.cur].bits_into_seg = 1
    /\ cursors[last.cur].bits_into_seg = 25
    /\ last.val = << >>

-----------------------------------------------------------------------------
(* Claims checked under SpecNBits *)

\* C2: for every N in 1..64, every value of N bits and every bit offset of the
\* write cursor, bitbuf_write_n_bits(N, v) followed by bitbuf_read_n_bits(N) at
\* the same stream position returns v.
C2_NBitsRoundTrip ==
    Len(hist[1]) = 2 =>
        /\ hist[1][2].val = caller.value
        /\ hist[1][1].val = AllOnes(caller.offset)
        /\ cursors[1].read_past_end = 0
        /\ buffer.truncated = 0

\* a 64-bit field with bits set at both ends, written across segments 0 and 1
C2_Witness ==
    /\ Len(hist[1]) = 2
    /\ caller.num_bits = 64
    /\ caller.offset = 37
    /\ caller.value = Pattern(64)
    /\ hist[1][2].val = Pattern(64)
    /\ buffer.data[1] # {}

-----------------------------------------------------------------------------
(* Claims checked under SpecB89 *)

\* C9: for every index I in 0..704968 and every max_index >= I, b89_unpack of
\* the four bytes b89_pack(I) wrote returns I.
C9_PackUnpackRoundTrip ==
    (/\ b89.pc = "done"
     /\ b89.packed
     /\ b89.index \in 0 .. B89_CODE_MAX
     /\ b89.max_index >= b89.index)
        => b89.out_index = b89.index

\* an index with three distinct non-zero digits came back
C9_Witness ==
    /\ b89.pc = "done"
    /\ b89.packed
    /\ b89.index = 43 + 89 * 88 + 7921 * 1
    /\ b89.max_index = b89.index
    /\ b89.out_index = b89.index

BadLeader(bytes) == bytes[1] # 3

BadDigit(bytes) == \E k \in 2 .. 4 : bytes[k] < 38 \/ bytes[k] > 126

\* C10: b89_unpack yields 0 whenever the first byte is not 0x03 or any of the
\* three digit bytes lies outside 0x26..0x7E.
C10_MalformedCodeYieldsZero ==
    (b89.pc = "done" /\ (BadLeader(b89.bytes) \/ BadDigit(b89.bytes)))
        => b89.out_index = 0

\* a good leader and two good digits, the last digit just above 0x7E, under a
\* max_index above every value three bytes can decode to
C10_Witness ==
    /\ b89.pc = "done"
    /\ b89.bytes = <<3, 39, 38, 127>>
    /\ b89.max_index = 2000000
    /\ b89.out_index = 0

\* C11: for every index I in 0..704968 and every max_index < I, b89_unpack of
\* the four bytes b89_pack(I) wrote returns 0.
C11_IndexAboveMaxYieldsZero ==
    (/\ b89.pc = "done"
     /\ b89.packed
     /\ b89.index \in 0 .. B89_CODE_MAX
     /\ b89.max_index < b89.index)
        => b89.out_index = 0

\* the largest index, unpacked under a max_index one below it
C11_Witness ==
    /\ b89.pc = "done"
    /\ b89.packed
    /\ b89.index = B89_CODE_MAX
    /\ b89.bytes = <<3, 126, 126, 126>>
    /\ b89.max_index = B89_CODE_MAX - 1
    /\ b89.out_index = 0

\* b89_pack(192, buf) has returned
Packed192 == b89.packed /\ b89.index = 192

\* C16 as stated: b89_pack(192, out) leaves out = {0x03, 0x3F, 0x28, 0x26}, and
\* b89_unpack of the four bytes with max_index 1000 returns 192.
C16_Pack192AsStated ==
    Packed192 =>
        /\ b89.bytes = <<3, 63, 40, 38>>
        /\ (b89.pc = "done" /\ b89.max_index = 1000) => b89.out_index = 192

\* C16: b89_pack(192, out) leaves out = {0x03, 0x34, 0x28, 0x26}, the first
\* digit being 0x26 + (192 mod 89) = 0x26 + 14, and b89_unpack of the four
\* bytes with max_index 1000 returns 192.
C16_Pack192 ==
    Packed192 =>
        /\ b89.bytes = <<3, 52, 40, 38>>
        /\ (b89.pc = "done" /\ b89.max_index = 1000) => b89.out_index = 192

\* 192 packed, then unpacked under max_index 1000
C16_Witness ==
    /\ Packed192
    /\ b89.pc = "done"
    /\ b89.max_index = 1000
    /\ b89.bytes = <<3, 52, 40, 38>>
    /\ b89.out_index = 192

-----------------------------------------------------------------------------
(* Claims checked under SpecIter *)

\* the range of the input an event stands for: the span of a TEXT event, the
\* four bytes at the iterator's position for a CODE event
EventFrom(e) == IF e.event.type = "B89_EVENT_TEXT" THEN e.event.ptr ELSE e.from

EventTo(e) ==
    IF e.event.type = "B89_EVENT_TEXT" THEN e.event.ptr + e.event.len ELSE e.from + 4

\* the offset up to which the events so far cover the input
CoveredEnd == IF b89.events = << >> THEN 0 ELSE EventTo(b89.events[Len(b89.events)])

\* C12: the ranges of the TEXT events and the 4-byte ranges of the CODE events,
\* in emission order, start at the first byte and each begin where the one
\* before ended; when iteration has ended they reach the end of the input, or
\* stop at an ST followed by fewer than 3 bytes.
C12_EventsCoverInput ==
    b89.pc \in {"iter", "iter_done"} =>
        /\ \A i \in DOMAIN b89.events :
               /\ EventFrom(b89.events[i]) =
                      (IF i = 1 THEN 0 ELSE EventTo(b89.events[i - 1]))
               /\ EventFrom(b89.events[i]) < EventTo(b89.events[i])
               /\ EventTo(b89.events[i]) <= Len(b89.str)
        /\ b89.pc = "iter" => b89.it.pos = CoveredEnd
        /\ b89.pc = "iter_done" =>
               \/ CoveredEnd = Len(b89.str)
               \/ /\ b89.str[CoveredEnd + 1] = B89_ST
                  /\ Len(b89.str) - CoveredEnd < 4

\* text, a code, text, then an ST with two bytes after it
C12_Witness ==
    /\ b89.pc = "iter_done"
    /\ b89.str = <<40, 3, 40, 40, 40, 2, 3, 40, 40>>
    /\ Len(b89.events) = 3
    /\ b89.events[2].event.type = "B89_EVENT_CODE"
    /\ CoveredEnd = 6

TextEvents == {i \in DOMAIN b89.events : b89.events[i].event.type = "B89_EVENT_TEXT"}

CodeEvents == {i \in DOMAIN b89.events : b89.events[i].event.type = "B89_EVENT_CODE"}

\* C13: every TEXT event is non-empty, contains no ST byte, ends at the next ST
\* byte or at the end of the input, and is not followed by another TEXT event.
C13_TextSpansMaximal ==
    b89.pc \in {"iter", "iter_done"} =>
        \A i \in TextEvents :
            LET e == b89.events[i].event
            IN  /\ e.len > 0
                /\ \A p \in e.ptr .. (e.ptr + e.len - 1) : b89.str[p + 1] # B89_ST
                /\ \/ e.ptr + e.len = Len(b89.str)
                   \/ b89.str[e.ptr + e.len + 1] = B89_ST
                /\ (i + 1) \in DOMAIN b89.events => (i + 1) \notin TextEvents

\* a span found by the 8-byte scan in a word whose byte after the ST is 0x02,
\* and a span found by the byte loop that runs to the end of the input
C13_Witness ==
    /\ b89.pc = "iter_done"
    /\ b89.str = <<40, 40, 3, 2, 40, 40, 40, 40, 2>>
    /\ Len(b89.events) = 3
    /\ b89.events[1].event = [type |-> "B89_EVENT_TEXT", ptr |-> 0, len |-> 2]
    /\ b89.events[3].event = [type |-> "B89_EVENT_TEXT", ptr |-> 6, len |-> 3]

\* the last call of b89_iter_next found pos at an ST with fewer than 4 bytes left
TruncatedCodeCall ==
    /\ b89.pc \in {"iter", "iter_done"}
    /\ b89.calls = 1
    /\ b89.pre.pos < b89.pre.end
    /\ b89.str[b89.pre.pos + 1] = B89_ST
    /\ b89.pre.end - b89.pre.pos < 4

\* C14: b89_iter_next called with pos at an ST byte and fewer than 4 bytes left
\* returns 0 and sets pos = end; the caller is given no CODE event for it.
C14_TruncatedCodeEndsIteration ==
    TruncatedCodeCall =>
        /\ b89.pc = "iter_done"
        /\ b89.it.pos = b89.it.end
        /\ \A i \in DOMAIN b89.events : EventTo(b89.events[i]) <= b89.pre.pos

\* a code, then an ST with three bytes left
C14_Witness ==
    /\ TruncatedCodeCall
    /\ b89.str = <<3, 40, 40, 40, 3, 40, 40>>
    /\ b89.pre.pos = 4
    /\ b89.it.pos = 7
    /\ Len(b89.events) = 1

\* C15: the index of every CODE event is b89_unpack of the four bytes the event
\* consumed, under the iterator's max_index: 0, or a value in 1..max_index.
C15_CodeIndexIsUnpack ==
    b89.pc \in {"iter", "iter_done"} =>
        \A i \in CodeEvents :
            LET e == b89.events[i]
            IN  /\ e.event.index =
                       b89_unpack(SubSeq(b89.str, e.from + 1, e.from + 4), b89.it.max_index)
                /\ e.event.index = 0 \/ e.event.index \in 1 .. b89.it.max_index

\* a well-formed code decoded to its index, and a malformed one decoded to 0
C15_Witness ==
    /\ b89.pc = "iter_done"
    /\ b89.str = <<2, 3, 40, 40, 40, 3, 40, 2, 40>>
    /\ b89.it.max_index = B89_CODE_MAX
    /\ Len(b89.events) = 3
    /\ b89.events[2].event = [type |-> "B89_EVENT_CODE", index |-> 16022]
    /\ b89.events[3].event = [type |-> "B89_EVENT_CODE", index |-> 0]

-----------------------------------------------------------------------------
(* Claims checked under SpecBytes *)

\* C18: bitbuf_get_bytes_from_buffer reports (write segment index) * 8 +
\* ceil(write.bits_into_seg / 8) used bytes: 0 on a fresh buffer, 1 after one
\* bool, 9 after a bool and a uint64; a truncated write leaves the count as
\* it was.
C18_UsedByteCount ==
    /\ last.op = "get_bytes" =>
           /\ last.val = buffer.write.seg * 8 + (buffer.write.bits_into_seg + 7) \div 8
           /\ written = << >> => last.val = 0
           /\ (Len(written) = 1 /\ written[1].op = "bool" /\ buffer.truncated = 0)
                  => last.val = 1
           /\ (/\ Len(written) = 2 /\ buffer.truncated = 0
               /\ written[1].op = "bool"
               /\ written[2].op = "type" /\ written[2].n = 64) => last.val = 9
    /\ (last.op \in SingleWriteOps /\ last.n > RemainingWriteBits(last.pre.buffer)) =>
           bitbuf_get_bytes_from_buffer(buffer).out_num_bytes
               = bitbuf_get_bytes_from_buffer(last.pre.buffer).out_num_bytes

\* the count asked for after a bool and a 64-bit value
C18_Witness ==
    /\ last.op = "get_bytes"
    /\ Len(written) = 2
    /\ written[1].op = "bool"
    /\ written[2].op = "type" /\ written[2].n = 64
    /\ buffer.truncated = 0
    /\ buffer.write.seg = 1 /\ buffer.write.bits_into_seg = 1
    /\ last.val = 9

-----------------------------------------------------------------------------
(* Claims checked under SpecPad *)

\* the bit the write cursor of a buffer stands at
WritePosition(buf) == buf.write.seg * 64 + buf.write.bits_into_seg

\* bitbuf_pad_to_byte has just returned, called on an unfrozen buffer
PadCall == last.op = "pad_to_byte" /\ last.pre.buffer.write.owner = NULL

\* C19: bitbuf_pad_to_byte on an unfrozen buffer writes k = (8 - (bits_into_seg
\* mod 8)) mod 8 zero bits: the write cursor moves k bits on and no bit is set;
\* truncated is not set; bits_into_seg is left a multiple of 8; and with k = 0
\* the buffer is as it was.
C19_PadToByte ==
    PadCall =>
        LET k == (8 - (last.pre.buffer.write.bits_into_seg % 8)) % 8
        IN  /\ WritePosition(buffer) = WritePosition(last.pre.buffer) + k
            /\ buffer.data = last.pre.buffer.data
            /\ buffer.truncated = last.pre.buffer.truncated
            /\ buffer.write.bits_into_seg % 8 = 0
            /\ k = 0 => buffer = last.pre.buffer

\* seven bits of padding that take the write cursor from bit 57 of the last
\* segment to the end of the buffer
C19_Witness ==
    /\ PadCall
    /\ buffer.capacity_bytes = 16
    /\ last.pre.buffer.write = [seg |-> 1, bits_into_seg |-> 57, owner |-> NULL]
    /\ buffer.write = [seg |-> 2, bits_into_seg |-> 0, owner |-> NULL]
    /\ buffer.truncated = 0

-----------------------------------------------------------------------------
(* Claims checked under SpecCstr *)

\* the string and its terminator fit behind the leading bits
CstrFits ==
    caller.offset + 8 * (Len(caller.str) + 1) <= buffer.capacity_bytes * 8

\* C21: a NUL-free string s that fits with its terminator moves the write
\* cursor 8 * (len(s) + 1) bits on when written, and bitbuf_read_cstr with
\* max_bytes >= len(s) + 1 at the same position returns s and leaves the cursor
\* just past the terminator.
C21_CstrRoundTrip ==
    CstrFits =>
        /\ Len(written) = 2 =>
               /\ buffer.write.seg * 64 + buffer.write.bits_into_seg
                      = caller.offset + 8 * (Len(caller.str) + 1)
               /\ buffer.truncated = 0
        /\ Len(hist[1]) = 2 =>
               /\ hist[1][2].val = caller.str
               /\ cursors[1].seg * 64 + cursors[1].bits_into_seg
                      = caller.offset + 8 * (Len(caller.str) + 1)
               /\ cursors[1].read_past_end = 0

\* three bytes, two of them negative as signed chars, written across the
\* boundary of segments 0 and 1 and read back with max_bytes = len + 1
C21_Witness ==
    /\ CstrFits
    /\ Len(hist[1]) = 2
    /\ caller.str = <<255, 1, 128>>
    /\ caller.offset = 53
    /\ caller.spare = 0
    /\ hist[1][2].val = <<255, 1, 128>>
    /\ cursors[1].seg = 1 /\ cursors[1].bits_into_seg = 21

-----------------------------------------------------------------------------
(* Claims checked under SpecWide *)

\* bit p of the bit stream of the buffer is set
StreamBit(buf, p) == (p % 64) \in buf.data[p \div 64]

\* the bits of the value at or above bit num_bits
ExcessBits == caller.value \ bitbuf__spanmasktable(caller.num_bits)

\* C22 as stated: a value with set bits at or above bit N is written without
\* masking: the excess bits are stored, in the positions of the next field.
C22_ExcessBitsStored ==
    Len(written) >= 2 =>
        \A b \in ExcessBits : StreamBit(buffer, caller.offset + b)

\* C22: a value with set bits at or above bit N fails the assertion of
\* bitbuf_write_n_bits and is written masked to its low N bits: no excess bit
\* is stored, and the field written next reads back as it was written.
C22_ExcessBitsDropped ==
    /\ (Len(written) = 2 /\ last.op = "write_n_bits") =>
           /\ "assert_value_fits" \in last.faults
           /\ \A b \in ExcessBits : ~StreamBit(buffer, caller.offset + b)
           /\ buffer.write.seg * 64 + buffer.write.bits_into_seg
                  = caller.offset + caller.num_bits
    /\ Len(hist[1]) = 3 =>
           /\ hist[1][2].val = caller.value \cap bitbuf__spanmasktable(caller.num_bits)
           /\ hist[1][3].val = {}

\* sixty-four ones written as a 5-bit field across the boundary of segments 0
\* and 1: five ones come back, and the byte after them is zero
C22_Witness ==
    /\ Len(hist[1]) = 3
    /\ caller.value = U64Bits
    /\ caller.num_bits = 5
    /\ caller.offset = 61
    /\ hist[1][2].val = 0 .. 4
    /\ hist[1][3].val = {}
    /\ buffer.data[1] = {0, 1}

-----------------------------------------------------------------------------
(* Claims checked under SpecImage *)

ImageLen == Len(caller.bytes)

\* the buffer bitbuf_alloc_buffer_with_bytes makes of the caller's image
ImageBuffer == bitbuf_alloc_buffer_with_bytes(caller.bytes, ImageLen)

\* C23: bitbuf_alloc_buffer_with_bytes(bytes, N) gives the buffer that
\* bitbuf_alloc_buffer(N) and N calls of bitbuf_write_uint8 give: capacity N
\* rounded up to 8, the same segments, write cursor (N div 8, (N mod 8) * 8),
\* truncated 0, unfrozen; N calls of bitbuf_read_uint8 return the bytes in
\* order, and further writes are accepted up to the capacity.
C23_AllocWithBytesIsByteWrites ==
    /\ (caller.mode = "writes" /\ Len(written) = ImageLen) => buffer = ImageBuffer
    /\ (caller.mode = "image" /\ last.op = "alloc") =>
           /\ buffer.capacity_bytes = 8 * ((ImageLen + 7) \div 8)
           /\ buffer.write = [seg |-> ImageLen \div 8,
                              bits_into_seg |-> (ImageLen % 8) * 8, owner |-> NULL]
           /\ buffer.truncated = 0
    /\ caller.mode = "image" =>
           \A k \in DOMAIN hist[1] : hist[1][k].val = ByteBits(caller.bytes[k])
    /\ (caller.mode = "image" /\ last.op = "write_type") =>
           LET before == last.pre.buffer.write.seg * 8
                             + last.pre.buffer.write.bits_into_seg \div 8
               after  == buffer.write.seg * 8 + buffer.write.bits_into_seg \div 8
           IN  IF before < buffer.capacity_bytes
               THEN after = before + 1 /\ buffer.truncated = 0
               ELSE after = before /\ buffer.truncated = 1

\* nine bytes written one by one into a fresh buffer
C23_Witness ==
    /\ caller.mode = "writes"
    /\ ImageLen = 9
    /\ Len(written) = 9
    /\ caller.bytes[8] = 129 /\ caller.bytes[9] = 90
    /\ buffer = ImageBuffer
    /\ buffer.write = [seg |-> 1, bits_into_seg |-> 8, owner |-> NULL]
    /\ buffer.data[0] # {} /\ buffer.data[1] = ByteBits(90)

-----------------------------------------------------------------------------
(* Claims checked under SpecQFloat *)

\* the ranges of bitbuf__test_qfloat
QFloatTestRanges ==
    { [min |-> IntToFloat(0), max |-> IntToFloat(1)],
      [min |-> IntToFloat(-1), max |-> IntToFloat(0)],
      [min |-> IntToFloat(-1), max |-> IntToFloat(1)],
      [min |-> IntToFloat(-32000), max |-> IntToFloat(32000)] }

\* a quantized float was written without a fault and has just been read back
QFloatReadBack ==
    /\ last.op = "read_quantized_float"
    /\ Len(written) = 2
    /\ last.faults \subseteq {"assert_q_in_range"}

\* C24 as stated: for every N in 1 .. 31 and every range min < max, writing
\* min and reading it back returns exactly min, and writing max and reading it
\* back returns exactly max.
C24_BoundariesExactEveryRange ==
    QFloatReadBack => last.val = caller.value

\* C24: for every N in 1 .. 31, writing min and reading it back returns
\* exactly min for every range; writing max and reading it back returns
\* exactly max for the ranges [0,1], [-1,0], [-1,1] and [-32000,32000], and
\* for other ranges may return another value.
C24_BoundariesExact ==
    QFloatReadBack =>
        /\ caller.value = caller.min => last.val = caller.min
        /\ [min |-> caller.min, max |-> caller.max] \in QFloatTestRanges
               => last.val = caller.value

\* max of [-1,1] written in 31 bits across the segment boundary and read back
C24_Witness ==
    /\ QFloatReadBack
    /\ caller.num_bits = 31
    /\ caller.offset = 50
    /\ caller.min = IntToFloat(-1)
    /\ caller.max = IntToFloat(1)
    /\ caller.value = caller.max
    /\ last.val = IntToFloat(1)
    /\ last.pre.cursors[1].bits_into_seg = 50
    /\ cursors[1] = [seg |-> 1, bits_into_seg |-> 17, owner |-> "buffer",
                     read_past_end |-> 0]

-----------------------------------------------------------------------------
(* Further claims checked under SpecCursors *)

\* C26: no read call loads a segment outside the segment array, also when the
\* cursor has consumed every bit of the buffer and when the read straddles
\* the last segment.
C26_ReadsInsideArray ==
    last.op \in ReadOps => "oob_read" \notin last.faults

\* C27: for a cursor at segment i in 0 .. S and bit b of a buffer of S
\* segments, the remaining-bits computation of the reads is (S - i) * 64 - b.
C27_RemainingBitsExact ==
    \A c \in CursorIds :
        (cursors[c].owner # NULL /\ cursors[c].seg <= SegCount(buffer)) =>
            bitbuf__bits_remaining_for_cursor(buffer, cursors[c])
                = BitsToEnd(buffer, cursors[c])

-----------------------------------------------------------------------------
(* Claims checked under SpecAny *)

\* 0 <= bits_into_seg < 64
CursorNormalised(cursor) ==
    cursor.bits_into_seg >= 0 /\ cursor.bits_into_seg < BITBUF__SEG_BITS

\* C25: in every reachable state the write cursor and every read cursor have
\* 0 <= bits_into_seg < 64, and the write cursor's used bits (seg * 64 +
\* bits_into_seg) do not exceed capacity_bytes * 8, truncated or not.
C25_CursorsInRange ==
    /\ CursorNormalised(buffer.write)
    /\ \A c \in CursorIds : CursorNormalised(cursors[c])
    /\ (buffer.write.seg * BITBUF__SEG_BITS) + buffer.write.bits_into_seg
           <= buffer.capacity_bytes * 8

\* a 63-bit field and a 1-bit field have filled the one segment, and a 64-bit
\* read has consumed it
C25_Witness ==
    /\ buffer.capacity_bytes = 8
    /\ Len(written) = 2
    /\ written[1].n = 63 /\ written[2].n = 1
    /\ buffer.write.seg = 1 /\ buffer.write.bits_into_seg = 0
    /\ buffer.truncated = 0
    /\ last.op = "read_n_bits" /\ last.n = 64
    /\ last.pre.cursors[1].seg = 0
    /\ cursors[1].seg = 1 /\ cursors[1].bits_into_seg = 0

\* C28: no write call stores into a segment outside the segment array, for
\* every width in 0 .. 64 and every reachable write cursor, also a write of 0
\* bits when the buffer is exactly full and the write cursor is at (S, 0).
C28_WritesInsideArray ==
    last.op \in WriteOps => "oob_write" \notin last.faults

-----------------------------------------------------------------------------
(* Further claims checked under SpecCstr *)

\* the bits left behind the leading bits when bitbuf_write_cstr is called
CstrRoom == (buffer.capacity_bytes * 8) - caller.offset

\* min(len(s), r div 8)
CstrCommitted ==
    IF Len(caller.str) < CstrRoom \div 8 THEN Len(caller.str) ELSE CstrRoom \div 8

\* C30: a bitbuf_write_cstr(s) with 8 * (len(s) + 1) > r, r the remaining bits,
\* sets truncated, commits exactly the first min(len(s), r div 8) bytes of s,
\* moves the write cursor on by 8 bits for each of them and writes no
\* terminator.
C30_CstrPartialCommit ==
    (~CstrFits /\ Len(written) = 2) =>
        /\ buffer.truncated = 1
        /\ (buffer.write.seg * 64) + buffer.write.bits_into_seg
               = caller.offset + (8 * CstrCommitted)
        /\ \A i \in 1 .. CstrCommitted :
               StreamByte(buffer, caller.offset + (8 * (i - 1))) = caller.str[i]
        /\ BitsBefore(buffer, caller.offset) = BitsBefore(last.pre.buffer, caller.offset)
        /\ BitsFrom(buffer, caller.offset + (8 * CstrCommitted)) = {}

\* three bytes written with 14 bits left in an 8-byte buffer: the first byte is
\* committed, the other two and the terminator are not
C30_Witness ==
    /\ ~CstrFits
    /\ last.op = "write_cstr"
    /\ buffer.capacity_bytes = 8
    /\ caller.offset = 50
    /\ caller.str = <<255, 1, 128>>
    /\ CstrCommitted = 1
    /\ buffer.truncated = 1
    /\ buffer.write = [seg |-> 0, bits_into_seg |-> 58, owner |-> NULL]
    /\ StreamByte(buffer, 50) = 255

-----------------------------------------------------------------------------
(* Claims checked under SpecScan *)

\* where a byte-by-byte scan of [in, end) stops: at the first B89_ST, or at end
PlainScan(str, in, end) ==
    LET found == {p \in in .. end - 1 : str[p + 1] = B89_ST}
    IN  IF found = {} THEN end
        ELSE CHOOSE p \in found : \A q \in found : p <= q

\* the lanes of the 8 bytes at offset w that hold B89_ST
EscapeLanes(str, w) == {k \in 0 .. 7 : str[w + k + 1] = B89_ST}

\* C31: scan_string_seg stops where a byte-by-byte scan stops, at the first
\* byte equal to 0x03 or at end; and for every 8-byte window of the range the
\* probe is nonzero exactly when the window holds an escape byte, its lowest
\* set bit lying in the lane of the first one.
C31_ScanIsByteScan ==
    /\ b89.pc = "scanned" => b89.p_in = PlainScan(b89.str, b89.in, b89.end)
    /\ b89.pc = "scanned" =>
           \A w \in b89.in .. b89.end - 8 :
               LET has_match == HasMatchLanes(b89.str, w, 0, 0)
                   escapes   == EscapeLanes(b89.str, w)
               IN  /\ has_match # {} <=> escapes # {}
                   /\ has_match # {} =>
                          get_first_match_index(has_match) \in escapes
                          /\ \A k \in escapes : get_first_match_index(has_match) <= k

\* 17 bytes scanned from offset 0: no escape byte in the first window, the
\* first one in lane 3 of the second window with a 0x02 in the lane above it,
\* another in the tail
C31_Witness ==
    /\ b89.pc = "scanned"
    /\ Len(b89.str) = 17 /\ b89.in = 0 /\ b89.end = 17
    /\ b89.str[12] = B89_ST /\ b89.str[13] = 2 /\ b89.str[17] = B89_ST
    /\ b89.p_in = 11
    /\ HasMatchLanes(b89.str, 8, 0, 0) = {3, 4}

-----------------------------------------------------------------------------
(* Claims checked under SpecTokens *)

\* C32: pos <= end in every state; every call of b89_iter_next that returns 1
\* moves pos forward, so that at most L calls return 1 on an input of L bytes
\* before a call returns 0; every call after that returns 0 and leaves pos
\* where it was.
C32_IterationTerminates ==
    /\ b89.it.pos <= b89.it.end
    /\ \A i \in DOMAIN b89.events : b89.events[i].from < b89.events[i].to
    /\ (b89.pc = "iter" /\ b89.calls = 1) => b89.pre.pos < b89.it.pos
    /\ Len(b89.events) <= Len(b89.str)
    /\ \A i \in DOMAIN b89.late : b89.late[i] = 0
    /\ b89.late # << >> => b89.it.pos = b89.pre.pos

\* a code, then an ST with nothing after it: the call that finds it returns 0
\* with pos at end, and so do two more calls
C32_Witness ==
    /\ b89.mode = "raw"
    /\ b89.str = <<3, 40, 40, 40, 3>>
    /\ b89.pc = "iter_done"
    /\ Len(b89.events) = 1
    /\ b89.events[1].from = 0 /\ b89.events[1].to = 4
    /\ b89.late = <<0, 0>>
    /\ b89.it.pos = 5 /\ b89.it.end = 5

-----------------------------------------------------------------------------
(* Further claims checked under SpecTokens *)

\* the last call of b89_iter_next found pos at an ST with 4 bytes or more left
CodeCall ==
    /\ b89.pc \in {"iter", "iter_done"}
    /\ b89.calls = 1
    /\ b89.pre.pos < b89.pre.end
    /\ b89.str[b89.pre.pos + 1] = B89_ST
    /\ b89.pre.end - b89.pre.pos >= 4

\* C33: b89_iter_next called with pos at an ST byte and 4 bytes or more left
\* gives the caller one CODE event and moves pos on by 4, the code valid or
\* not; when one of the three bytes after the ST is itself an ST the event's
\* index is 0 and no event starts at that byte.
C33_CodeConsumesFourBytes ==
    CodeCall =>
        /\ b89.pc = "iter"
        /\ b89.it.pos = b89.pre.pos + 4
        /\ b89.events # << >>
        /\ LET e == b89.events[Len(b89.events)]
           IN  /\ e.event.type = "B89_EVENT_CODE"
               /\ e.from = b89.pre.pos /\ e.to = b89.pre.pos + 4
               /\ \A j \in DOMAIN b89.events :
                      j # Len(b89.events) => b89.events[j].to <= b89.pre.pos
               /\ (\E k \in 1 .. 3 : b89.str[b89.pre.pos + k + 1] = B89_ST) =>
                      /\ e.event.index = 0
                      /\ \A j \in DOMAIN b89.events :
                             \A k \in 1 .. 3 : b89.events[j].from # b89.pre.pos + k

\* text, then an ST whose second digit is an ST: one CODE event with index 0
\* for the four bytes, with an ST and one more byte left behind them
C33_Witness ==
    /\ CodeCall
    /\ b89.mode = "raw"
    /\ b89.str = <<40, 3, 40, 3, 40, 3, 40>>
    /\ b89.pre.pos = 1
    /\ b89.it.pos = 5
    /\ Len(b89.events) = 2
    /\ b89.events[2].event = [type |-> "B89_EVENT_CODE", index |-> 0]

\* event i is item i: the same bytes for a text, the same index for a code
EventIsItem(i) ==
    LET e == b89.events[i].event
        x == b89.items[i]
    IN  \/ /\ x.kind = "text"
           /\ e.type = "B89_EVENT_TEXT"
           /\ SubSeq(b89.str, e.ptr + 1, e.ptr + e.len) = x.bytes
        \/ /\ x.kind = "code"
           /\ e.type = "B89_EVENT_CODE"
           /\ e.index = x.index

\* C34: tokenizing the concatenation of texts (non-empty, without ST, no two
\* adjacent) and of the b89_pack bytes of indexes in 1 .. min(max_index,
\* 704968) gives those items back as TEXT and CODE events, in order, and then
\* ends; no byte b89_pack stores after the leader is 0x03.
C34_TokenizeGivesItems ==
    b89.mode = "packed" =>
        /\ Len(b89.events) <= Len(b89.items)
        /\ \A i \in DOMAIN b89.events : EventIsItem(i)
        /\ Len(b89.events) = Len(b89.items) => b89.it.pos = b89.it.end
        /\ b89.pc = "iter_done" => Len(b89.events) = Len(b89.items)
        /\ \A i \in DOMAIN b89.items :
               b89.items[i].kind = "code" =>
                   \A k \in 2 .. 4 : b89_pack(b89.items[i].index).bytes[k] # B89_ST

\* a text of nine bytes, the code of index 192 and a text of two digit bytes,
\* tokenized to the end under max_index = 192
C34_Witness ==
    /\ b89.mode = "packed"
    /\ b89.pc = "iter_done"
    /\ b89.it.max_index = 192
    /\ Len(b89.items) = 3
    /\ b89.items[1].kind = "text" /\ Len(b89.items[1].bytes) = 9
    /\ b89.items[2] = [kind |-> "code", index |-> 192]
    /\ b89.items[3] = [kind |-> "text", bytes |-> <<40, 38>>]
    /\ Len(b89.events) = 3
    /\ b89.events[2].event = [type |-> "B89_EVENT_CODE", index |-> 192]
    /\ b89.events[3].event = [type |-> "B89_EVENT_TEXT", ptr |-> 13, len |-> 2]

====
